---- MODULE Spec2Model ----
(***************************************************************************)
(* A model of vpn3gui.py (class VPNManager): the connect / disconnect      *)
(* state machine driven by openvpn3 commands that run on worker threads    *)
(* and complete on the GLib main loop, and the credential store.           *)
(*                                                                         *)
(* A worker thread ends by GLib.idle_add(callback, result) and the main     *)
(* loop runs the queued callbacks in the order the threads queued them.    *)
(* A thread may reach its idle_add at any time after its command returned, *)
(* so the callbacks of different threads run in any order: the model takes *)
(* the queueing and the dispatch of a callback as one step of the thread   *)
(* that carries it.                                                        *)
(*                                                                         *)
(* Text is modelled as the code sees it: a command's output is a sequence  *)
(* of lines, a line is the sequence of its whitespace-delimited tokens     *)
(* (line.split()), and a token is a string.  Substring tests and the       *)
(* regular expression of start_done are tables over the tokens used.       *)
(***************************************************************************)
EXTENDS Integers, Sequences, FiniteSets, Bags, TLC

(***************************************************************************)
(* Bounds of the model.                                                    *)
(***************************************************************************)
MaxThreads == 2    \* worker threads alive at once
MaxDialogs == 1    \* modal dialogs open at once (nested main loops)
MaxTimers == 2     \* repeating poll timers that are tracked
MaxLockedFailures == 2   \* locked-keyring failures followed in one process
MaxUpdates == 5    \* direct calls of update_chart_data that are explored
\* self.chart_data_points, the capacity of the two rate histories: 60 in the
\* program, scaled down so that a run fills and overruns a history
chart_data_points == 3

(***************************************************************************)
(* Values.                                                                 *)
(***************************************************************************)
None == "<None>"                     \* Python's None
NoConfigs == "No configs available"  \* the placeholder combo entry
S1 == "/net/openvpn/v3/sessions/a1s"
S2 == "/net/openvpn/v3/sessions/b2s"
SessionRefs == {S1, S2}              \* the refs the control plane can hand out
S1Comma == "/net/openvpn/v3/sessions/a1s,"   \* a ref followed by punctuation
SUpper == "/net/openvpn/v3/sessions/XYZ"     \* the prefix, then no [a-f0-9s]
LabelPath == "Path:"
LabelSession == "Session path:"      \* start_done searches it as a substring

\* '/net/openvpn/v3/sessions/' in part
HasNs(tok) == tok \in SessionRefs \cup {S1Comma, SUpper}

\* '/net/openvpn/v3/sessions/' in line
LineHasNs(line) == \E i \in 1..Len(line) : HasNs(line[i])

\* re.findall(r'/net/openvpn/v3/sessions/[a-f0-9s]+', tok): the match inside one
\* token, None when the prefix is followed by no character of the class
RegexMatch(tok) ==
  IF tok \in SessionRefs THEN tok
  ELSE IF tok = S1Comma THEN S1
  ELSE None

\* " ".join(tokens): the text of a token sequence
RECURSIVE JoinTokens(_)
JoinTokens(toks) ==
  IF Len(toks) = 0 THEN ""
  ELSE IF Len(toks) = 1 THEN toks[1]
  ELSE toks[1] \o " " \o JoinTokens(Tail(toks))

\* result.stdout.strip() is non-empty
NonBlank(lines) == \E i \in 1..Len(lines) : Len(lines[i]) > 0

(***************************************************************************)
(* Report parsing, as each handler does it.                                *)
(***************************************************************************)
\* process_status: per line that contains the prefix, the first token that
\* contains it
RECURSIVE FirstNsToken(_)
FirstNsToken(line) ==
  IF Len(line) = 0 THEN None
  ELSE IF HasNs(Head(line)) THEN Head(line)
  ELSE FirstNsToken(Tail(line))

\* a wrong parse: the sessions are collected last line first
RECURSIVE ParseSessionListReversed(_)
ParseSessionListReversed(lines) ==
  IF Len(lines) = 0 THEN <<>>
  ELSE IF LineHasNs(Head(lines))
       THEN ParseSessionListReversed(Tail(lines)) \o <<FirstNsToken(Head(lines))>>
       ELSE ParseSessionListReversed(Tail(lines))

RECURSIVE ParseSessionList(_)
ParseSessionList(lines) ==
  IF Len(lines) = 0 THEN <<>>
  ELSE IF LineHasNs(Head(lines))
       THEN <<FirstNsToken(Head(lines))>> \o ParseSessionList(Tail(lines))
       ELSE ParseSessionList(Tail(lines))

\* find_and_disconnect: line.split()[0] of the first line that contains the
\* prefix, None when no line does
RECURSIVE FindFirstSession(_)
FindFirstSession(lines) ==
  IF Len(lines) = 0 THEN None
  ELSE IF LineHasNs(Head(lines)) THEN Head(lines)[1]
  ELSE FindFirstSession(Tail(lines))

\* start_done, primary pattern: line.split('Session path:')[1].strip() of the
\* first line that holds the label; None when no line holds it
RECURSIVE AfterLabel(_)
AfterLabel(line) ==
  IF Len(line) = 0 THEN <<>>
  ELSE IF Head(line) = LabelSession THEN <<>>
  ELSE <<Head(line)>> \o AfterLabel(Tail(line))

RECURSIVE LabelValue(_)
LabelValue(line) ==
  IF Len(line) = 0 THEN None
  ELSE IF Head(line) = LabelSession THEN JoinTokens(AfterLabel(Tail(line)))
  ELSE LabelValue(Tail(line))

RECURSIVE LabeledSessionPath(_)
LabeledSessionPath(lines) ==
  IF Len(lines) = 0 THEN None
  ELSE IF LabelValue(Head(lines)) # None THEN LabelValue(Head(lines))
  ELSE LabeledSessionPath(Tail(lines))

\* start_done, fallback: matches[0] of re.findall over the whole output
RECURSIVE Flatten(_)
Flatten(lines) ==
  IF Len(lines) = 0 THEN <<>> ELSE Head(lines) \o Flatten(Tail(lines))

RECURSIVE FirstRegexMatch(_)
FirstRegexMatch(toks) ==
  IF Len(toks) = 0 THEN None
  ELSE IF RegexMatch(Head(toks)) # None THEN RegexMatch(Head(toks))
  ELSE FirstRegexMatch(Tail(toks))

\* a wrong start_done: without the labelled line nothing is tracked
ExtractLabelledOnly(lines, old) ==
  IF LabeledSessionPath(lines) # None THEN LabeledSessionPath(lines) ELSE old

\* the session start_done tracks after a successful start
ExtractStartedSession(lines, old) ==
  IF LabeledSessionPath(lines) # None THEN LabeledSessionPath(lines)
  ELSE IF FirstRegexMatch(Flatten(lines)) # None
       THEN FirstRegexMatch(Flatten(lines))
       ELSE old

(***************************************************************************)
(* The config listing and its parse (update_combo).                        *)
(***************************************************************************)
PathA == "/home/u/a.ovpn"
PathA2 == "/etc/vpn/a.ovpn"
PathB == "/home/u/b.ovpn"
Dashes == "-----"

\* os.path.basename(config_path)
Basename(path) == IF path = PathB THEN "b.ovpn" ELSE "a.ovpn"

Header == << <<"Configuration", "path">>, <<"Imported", "Last", "used">> >>
ConfigListings ==
  { Header \o << <<Dashes>> >>,
    Header \o << <<Dashes>>, <<PathA, "0", "0">>, <<Dashes>> >>,
    Header \o << <<Dashes>>, <<PathA, "0", "0">>, <<>>, <<PathB, "1", "0">> >>,
    Header \o << <<PathB, "0", "0">>, <<PathA2, "2", "1">>, <<PathA, "0", "0">> >>,
    Header \o << <<PathA, "0", "0">> >> }

\* lines[2:]
DropHeader(lines) == IF Len(lines) <= 2 THEN <<>> ELSE SubSeq(lines, 3, Len(lines))

\* line.strip() and not line.startswith('-')
IsDataLine(line) == Len(line) > 0 /\ line[1] # Dashes

EmptyMap == [n \in {} |-> None]

\* the entries update_combo appends to the combo box, in order
RECURSIVE ComboItemsOf(_)
ComboItemsOf(lines) ==
  IF Len(lines) = 0 THEN <<>>
  ELSE IF IsDataLine(Head(lines))
       THEN <<Basename(Head(lines)[1])>> \o ComboItemsOf(Tail(lines))
       ELSE ComboItemsOf(Tail(lines))

\* a wrong update_combo: the first line that carries a display name wins
RECURSIVE ConfigPathsFirstWins(_, _)
ConfigPathsFirstWins(lines, acc) ==
  IF Len(lines) = 0 THEN acc
  ELSE IF IsDataLine(Head(lines))
       THEN ConfigPathsFirstWins(Tail(lines),
                                 acc @@ (Basename(Head(lines)[1]) :> Head(lines)[1]))
       ELSE ConfigPathsFirstWins(Tail(lines), acc)

\* self.config_paths[display_name] = config_path, line by line
RECURSIVE ConfigPathsOf(_, _)
ConfigPathsOf(lines, acc) ==
  IF Len(lines) = 0 THEN acc
  ELSE IF IsDataLine(Head(lines))
       THEN ConfigPathsOf(Tail(lines),
                          (Basename(Head(lines)[1]) :> Head(lines)[1]) @@ acc)
       ELSE ConfigPathsOf(Tail(lines), acc)

(***************************************************************************)
(* Outcomes of an external command (subprocess.run / Popen.communicate).   *)
(***************************************************************************)
NoResult == [kind |-> "none", out |-> <<>>, err |-> ""]
Rc0(out) == [kind |-> "rc0", out |-> out, err |-> ""]
RcN(err) == [kind |-> "rcN", out |-> <<>>, err |-> err]
TimedOut == [kind |-> "timeout", out |-> <<>>, err |-> ""]
LaunchFailed == [kind |-> "exc", out |-> <<>>, err |-> ""]

ErrAuth == "AUTH_FAILED"
ErrOther == "Connection refused"
\* "AUTH_FAILED" in result.stderr or "authentication" in result.stderr.lower()
IsAuthError(err) == err = ErrAuth

\* openvpn3 sessions-list: one block per session; the path line is printed as
\* "Path: <ref>", and a bare "<ref>" line stands for other layouts
SessionLine(ref, fmt) == IF fmt = "labelled" THEN <<LabelPath, ref>> ELSE <<ref>>
ListingFormats == {"labelled", "bare"}

RECURSIVE SessionListing(_, _)
SessionListing(refs, fmt) ==
  IF Len(refs) = 0 THEN <<>>
  ELSE << <<Dashes>>, SessionLine(Head(refs), fmt), <<"Owner:", "u">> >>
       \o SessionListing(Tail(refs), fmt)

NoSessionsText == << <<"No", "sessions", "available">> >>

SessionsListOutputs(refs) ==
  IF Len(refs) = 0 THEN {<<>>, NoSessionsText}
  ELSE {SessionListing(refs, fmt) : fmt \in ListingFormats}

\* openvpn3 session-stats: a line of the report is the text before its first
\* '.', whether it holds a '.', and the text after its last '.'
StatLine(head, dots, field) == [head |-> head, dots |-> dots, field |-> field]

\* 'BYTES_IN' in line, 'BYTES_OUT' in line
HasBytesIn(line) ==
  line.head \in {"BYTES_IN", "     BYTES_IN", "TUN_BYTES_IN", "     TUN_BYTES_IN"}
HasBytesOut(line) ==
  line.head \in {"BYTES_OUT", "     BYTES_OUT", "TUN_BYTES_OUT"}
\* a wrong test: line.startswith('TUN_') without the strip()
StartsWithTunUnstripped(line) ==
  line.head \in {"TUN_BYTES_IN", "TUN_BYTES_OUT"}

\* line.strip().startswith('TUN_')
StartsWithTun(line) ==
  line.head \in {"TUN_BYTES_IN", "     TUN_BYTES_IN", "TUN_BYTES_OUT"}

\* int(value_str) after strip(): the number, or the ValueError it raises
IntOf(field) ==
  CASE field = "9438" -> [ok |-> TRUE, val |-> 9438]
    [] field = "1234" -> [ok |-> TRUE, val |-> 1234]
    [] field = " 3599" -> [ok |-> TRUE, val |-> 3599]
    [] OTHER -> [ok |-> FALSE, val |-> 0]

\* the try block of one counter: the value after the line
FieldValue(line, old) ==
  IF line.dots /\ IntOf(line.field).ok THEN IntOf(line.field).val ELSE old

\* the loop over the lines of the report: <<bytes_in_value, bytes_out_value>>
RECURSIVE ParseStatLines(_, _)
ParseStatLines(lines, acc) ==
  IF Len(lines) = 0 THEN acc
  ELSE LET line == Head(lines) IN
       ParseStatLines(Tail(lines),
         IF HasBytesIn(line) /\ ~StartsWithTun(line)
         THEN <<FieldValue(line, acc[1]), acc[2]>>
         ELSE IF HasBytesOut(line) /\ ~StartsWithTun(line)
         THEN <<acc[1], FieldValue(line, acc[2])>>
         ELSE acc)

StatsText ==
  << StatLine("Connection statistics:", FALSE, ""),
     StatLine("     BYTES_IN", TRUE, "9438"),
     StatLine("     BYTES_OUT", TRUE, " 3599") >>

\* the scenario lines, the tunnel-level counter before and after the
\* session-level one
TunFirstText ==
  << StatLine("TUN_BYTES_IN", TRUE, "1234"), StatLine("BYTES_IN", TRUE, "9438") >>
TunLastText ==
  << StatLine("BYTES_IN", TRUE, "9438"), StatLine("TUN_BYTES_IN", TRUE, "1234") >>

\* reports openvpn3 session-stats may print, whole, truncated or garbled
StatsTexts ==
  { StatsText,
    <<>>,
    << StatLine("Connection statistics:", FALSE, "") >>,
    << StatLine("     BYTES_IN", FALSE, ""),
       StatLine("     BYTES_OUT", TRUE, " 3599") >>,
    << StatLine("     BYTES_IN", TRUE, ""),
       StatLine("     BYTES_OUT", TRUE, "abc") >>,
    TunFirstText,
    TunLastText,
    << StatLine("     BYTES_OUT", TRUE, " 3599") >>,
    << StatLine("     TUN_BYTES_IN", TRUE, "1234"),
       StatLine("TUN_BYTES_OUT", TRUE, "1234") >>,
    << StatLine("     BYTES_IN", TRUE, "9438"),
       StatLine("     BYTES_OUT", TRUE, " 3599"),
       StatLine("     BYTES_IN", TRUE, "abc") >> }

\* what openvpn3 session-start prints for a new session
StartOutputs(ref) ==
  { << <<"Using", "configuration">>, <<LabelSession, ref>>, <<"Connected">> >>,
    << <<"Session", "created", "at", IF ref = S1 THEN S1Comma ELSE ref>> >>,
    << <<"Connected">> >> }

SeqToSet(s) == {s[i] : i \in 1..Len(s)}
RemoveAt(s, i) == SubSeq(s, 1, i - 1) \o SubSeq(s, i + 1, Len(s))
RECURSIVE Without(_, _)
Without(s, x) ==
  IF Len(s) = 0 THEN <<>>
  ELSE IF Head(s) = x THEN Without(Tail(s), x)
  ELSE <<Head(s)>> \o Without(Tail(s), x)

(***************************************************************************)
(* State.                                                                  *)
(***************************************************************************)
VARIABLES
  sessions,            \* control plane: the live sessions, in listing order
  world_configs,       \* control plane: what configs-list prints now
  current_session,     \* self.current_session
  config_paths,        \* self.config_paths
  combo_items,         \* the entries of self.config_combo
  combo_active,        \* its active index, 0 for no selection
  is_connecting,       \* self.is_connecting
  status,              \* first line of the status buffer
  start_button,        \* Connect is sensitive
  stop_button,         \* Disconnect is sensitive
  poll_timers,         \* repeating GLib timers that call update_status
  threads,             \* worker threads (a bag): command, result, callback
  dialogs,             \* open modal dialogs, innermost last
  last,                \* history: what the last step ran
  stored_credentials,  \* self.stored_credentials
  use_keyring,         \* self.use_keyring
  KEYRING_AVAILABLE,   \* module constant, fixed at import
  keyring_store,       \* the payload held by the secret service, or Absent
  credentials_file,    \* the payload of credentials.json, or Absent
  bytes_in_history,    \* self.bytes_in_history, oldest first
  bytes_out_history,   \* self.bytes_out_history, oldest first
  last_bytes_in,       \* self.last_bytes_in
  last_bytes_out,      \* self.last_bytes_out
  updates,             \* history: the direct calls of update_chart_data
  stats_texts,         \* control plane: the reports session-stats may print
  plaintext_configs,   \* self.plaintext_configs
  auth_files,          \* disk: the plaintext auth files, by path
  backup_files,        \* disk: their .backup copies, by path of the original
  migration_report,    \* what migrate_all_credentials reported last
  keyring_init_warning_shown,  \* hasattr(self, '_keyring_init_warning_shown')
  keyring_fix_queued,  \* history: GLib.idle_add(self.show_simple_keyring_fix)
                       \* calls of this process
  locked_failures      \* history: keyring calls of this process that raised
                       \* with a locked or uninitialized keyring

worldVars == <<sessions, world_configs>>
uiVars == <<current_session, is_connecting, status, start_button, stop_button>>
cfgVars == <<config_paths, combo_items, combo_active>>
noticeVars == <<keyring_init_warning_shown, keyring_fix_queued, locked_failures>>
credVars == <<stored_credentials, use_keyring, KEYRING_AVAILABLE, keyring_store,
              credentials_file, noticeVars>>
chartVars == <<bytes_in_history, bytes_out_history, last_bytes_in,
               last_bytes_out, updates>>
migVars == <<plaintext_configs, auth_files, backup_files, migration_report>>
vars == <<sessions, world_configs, current_session, config_paths, combo_items,
          combo_active, is_connecting, status, start_button, stop_button,
          poll_timers, threads, dialogs, last, stored_credentials,
          use_keyring, KEYRING_AVAILABLE, keyring_store, credentials_file,
          bytes_in_history, bytes_out_history, last_bytes_in, last_bytes_out,
          updates, stats_texts, plaintext_configs, auth_files, backup_files,
          migration_report, keyring_init_warning_shown, keyring_fix_queued,
          locked_failures>>

(***************************************************************************)
(* Worker threads and dialogs.                                             *)
(***************************************************************************)
PollCallbacks == {"process_status", "process_session_status"}

\* a thread started by run_command or start_vpn_with_credentials.  queued is
\* the callback of this thread that the main loop runs next once the command
\* has returned.  stale is history: the action (start or stop) that completed
\* while this poll call was in flight
Thread(cmd, arg, cb) ==
  [cmd |-> cmd, arg |-> arg, cb |-> cb, res |-> NoResult, queued |-> "",
   stale |-> "", input |-> <<>>]

\* a wrong command line: what the thread writes to stdin is appended to it
ArgvWithInput(t) ==
  <<"openvpn3", t.cmd>> \o (IF t.arg = "" THEN <<>> ELSE <<t.arg>>) \o t.input

\* the argument list the thread hands to subprocess.run or subprocess.Popen
Argv(t) ==
  CASE t.cmd \in {"configs-list", "sessions-list"} -> <<"openvpn3", t.cmd>>
    [] t.cmd = "session-stats" ->
         <<"openvpn3", "session-stats", "--session-path", t.arg>>
    [] t.cmd = "session-manage" ->
         <<"openvpn3", "session-manage", "--session-path", t.arg, "--disconnect">>
    [] t.cmd = "session-start" ->
         <<"openvpn3", "session-start", "--config", t.arg>>
    [] OTHER -> <<>>

\* what run_command prints for the thread when debug_mode is on:
\* ' '.join(cmd); the start thread is not started by run_command
DebugPrinted(t) == IF t.cmd = "session-start" THEN <<>> ELSE Argv(t)

\* history: the callback or the entry point that the last step ran, with the
\* command and outcome it was given and is_connecting on entry; NoEvent
\* after a step of a thread, of the timer, of a dialog or of the control plane
NoEvent == [op |-> "", cmd |-> "", kind |-> "none", guard |-> FALSE, stale |-> ""]
Event(op, t) ==
  [op |-> op, cmd |-> t.cmd, kind |-> t.res.kind, guard |-> is_connecting,
   stale |-> t.stale]
Handled(t) == last' = Event(t.cb, t)
UserDid(op) == last' = Event(op, Thread("", "", ""))

One(t) == SetToBag({t})
Alive == BagToSet(threads)
CanSpawn(n) == BagCardinality(threads) + n <= MaxThreads

Dialog(kind, name, path, retry) ==
  [kind |-> kind, name |-> name, path |-> path, retry |-> retry]
ErrorDialog == Dialog("error", "", "", FALSE)

CanOpen == Len(dialogs) < MaxDialogs
Top == dialogs[Len(dialogs)]
Pop == SubSeq(dialogs, 1, Len(dialogs) - 1)

\* self.config_combo.get_active_text()
ActiveText == IF combo_active = 0 THEN None ELSE combo_items[combo_active]

\* self.config_paths.get(display_name)
PathOf(name) == IF name \in DOMAIN config_paths THEN config_paths[name] ELSE None

\* a wrong start_vpn: only the missing selection is rejected
ValidSelectionLax(name) == name # None /\ name # ""

\* start_vpn: the two checks that precede the credential dialog
ValidSelection(name) ==
  /\ name # None /\ name # "" /\ name # NoConfigs
  /\ PathOf(name) # None

\* not self.current_session
NoTracked(cs) == cs = None \/ cs = ""

\* history only: a start or stop completion makes every poll call that is
\* still in flight a stale one
Marked(t, by) == IF t.cb \in PollCallbacks THEN [t EXCEPT !.stale = by] ELSE t

RECURSIVE Copies(_, _)
Copies(b, S) ==
  IF S = {} THEN 0
  ELSE LET t == CHOOSE x \in S : TRUE IN b[t] + Copies(b, S \ {t})

MarkStale(b, by) ==
  LET img == {Marked(t, by) : t \in DOMAIN b} IN
  IF img = {} THEN EmptyBag
  ELSE [u \in img |-> Copies(b, {t \in DOMAIN b : Marked(t, by) = u})]

(***************************************************************************)
(* The traffic chart.                                                      *)
(***************************************************************************)
\* deque([0] * n, maxlen=n)
ZeroHistory(n) == [i \in 1..n |-> 0]

\* a wrong deque: the sample is dropped when the history is full
DequeAppendKeepsOldest(d, x, maxlen) ==
  IF Len(d) >= maxlen THEN d ELSE Append(d, x)

\* deque.append with maxlen: the leftmost item leaves a full deque
DequeAppend(d, x, maxlen) ==
  IF Len(d) >= maxlen THEN Append(Tail(d), x) ELSE Append(d, x)

\* a wrong rate: the difference is taken whenever a previous sample exists
RateUnchecked(previous, current) ==
  IF previous > 0 THEN current - previous ELSE 0

\* in_rate / out_rate of update_chart_data
Rate(previous, current) ==
  IF previous > 0 /\ current > previous THEN current - previous ELSE 0

\* a wrong parse: the counters are not reset to 0 before the loop
ParseSessionStatsKeepsLast(lines) ==
  IF \E i \in 1..Len(lines) : HasBytesIn(lines[i])
  THEN ParseStatLines(lines, <<last_bytes_in, last_bytes_out>>)
  ELSE <<last_bytes_in, last_bytes_out>>

\* process_session_status: the counters it passes to update_chart_data
ParseSessionStats(lines) ==
  IF \E i \in 1..Len(lines) : HasBytesIn(lines[i])
  THEN ParseStatLines(lines, <<0, 0>>)
  ELSE <<0, 0>>

\* update_chart_data
UpdateChartData(bytes_in, bytes_out) ==
  /\ bytes_in_history' = DequeAppend(bytes_in_history,
                                     Rate(last_bytes_in, bytes_in),
                                     chart_data_points)
  /\ bytes_out_history' = DequeAppend(bytes_out_history,
                                      Rate(last_bytes_out, bytes_out),
                                      chart_data_points)
  /\ last_bytes_in' = bytes_in
  /\ last_bytes_out' = bytes_out

(***************************************************************************)
(* The credential store.                                                   *)
(***************************************************************************)
Cred(u, p) == [username |-> u, password |-> p]

\* json.dumps / json.loads of the mapping: a dict of str -> dict of str
\* survives the round trip unchanged
JsonDumps(m) == [present |-> TRUE, json |-> m]
JsonLoads(t) == t.json
Absent == [present |-> FALSE, json |-> EmptyMap]   \* no payload stored

\* get_credentials_for_config
GetCredentialsFor(name) ==
  IF name \in DOMAIN stored_credentials
  THEN <<stored_credentials[name].username, stored_credentials[name].password>>
  ELSE <<None, None>>

\* a wrong save_credentials: an entry that exists is not replaced
SaveMemoryIfNew(name, u, p, remember) ==
  IF remember /\ name \notin DOMAIN stored_credentials
  THEN (name :> Cred(u, p)) @@ stored_credentials
  ELSE stored_credentials

\* save_credentials: kr_ok says whether keyring.set_password succeeds, file_ok
\* whether the file can be written
SaveMemory(name, u, p, remember) ==
  IF remember THEN (name :> Cred(u, p)) @@ stored_credentials
  ELSE stored_credentials

\* what a failing keyring call raises: an exception whose text has "no keys
\* suitable", "encryption key" or "locked", or another one; a process is
\* followed through MaxLockedFailures failures of the first kind
KeyringErrors == {"locked", "other"}
KeyringErrorsNow(n) ==
  IF locked_failures + n <= MaxLockedFailures THEN KeyringErrors ELSE {"other"}

NoNotice == [shown |-> FALSE, queued |-> 0, locked |-> 0]
NoticeNow ==
  [shown |-> keyring_init_warning_shown, queued |-> keyring_fix_queued,
   locked |-> locked_failures]

\* a wrong except branch: the help is queued at every locked failure
NoticeEveryTime(s, raised, err) ==
  IF raised /\ err = "locked"
  THEN [shown |-> TRUE, queued |-> s.queued + 1, locked |-> s.locked + 1]
  ELSE s

\* the except branch of the keyring call in load_credentials and in
\* save_credentials: the help is queued if the error is of the locked kind
\* and the attribute is not set yet
Notice(s, raised, err) ==
  IF raised /\ err = "locked"
  THEN [shown |-> TRUE,
        queued |-> IF s.shown THEN s.queued ELSE s.queued + 1,
        locked |-> s.locked + 1]
  ELSE s

\* the except branch taken n times, once per save of a loop
RECURSIVE NoticeTimes(_, _, _)
NoticeTimes(s, n, err) ==
  IF n = 0 THEN s ELSE NoticeTimes(Notice(s, TRUE, err), n - 1, err)

SetNotice(s) ==
  /\ keyring_init_warning_shown' = s.shown
  /\ keyring_fix_queued' = s.queued
  /\ locked_failures' = s.locked

\* the keyring call of save_credentials raised (or not) with error err
KeyringNotice(raised, err) == SetNotice(Notice(NoticeNow, raised, err))

\* the keyring call of load_credentials in __init__: the object is new
KeyringNoticeAtStart(raised, err) == SetNotice(Notice(NoNotice, raised, err))

\* a wrong save_credentials: the fallback file receives the new entry alone
SaveCredentialsEntryOnly(name, u, p, remember, kr_ok, file_ok) ==
  /\ stored_credentials' = SaveMemory(name, u, p, remember)
  /\ IF ~remember
     THEN UNCHANGED <<keyring_store, credentials_file>>
     ELSE IF KEYRING_AVAILABLE /\ use_keyring /\ kr_ok
     THEN /\ keyring_store' = JsonDumps(stored_credentials')
          /\ UNCHANGED credentials_file
     ELSE /\ UNCHANGED keyring_store
          /\ credentials_file' =
               IF file_ok THEN JsonDumps(name :> Cred(u, p))
               ELSE credentials_file
  /\ \E err \in KeyringErrorsNow(1) :
       KeyringNotice(remember /\ KEYRING_AVAILABLE /\ use_keyring /\ ~kr_ok, err)
  /\ UNCHANGED <<use_keyring, KEYRING_AVAILABLE>>

SaveCredentials(name, u, p, remember, kr_ok, file_ok) ==
  /\ stored_credentials' = SaveMemory(name, u, p, remember)
  /\ IF ~remember
     THEN UNCHANGED <<keyring_store, credentials_file>>
     ELSE IF KEYRING_AVAILABLE /\ use_keyring /\ kr_ok
     THEN /\ keyring_store' = JsonDumps(stored_credentials')
          /\ UNCHANGED credentials_file
     ELSE /\ UNCHANGED keyring_store
          /\ credentials_file' =
               IF file_ok THEN JsonDumps(stored_credentials')
               ELSE credentials_file
  /\ \E err \in KeyringErrorsNow(1) :
       KeyringNotice(remember /\ KEYRING_AVAILABLE /\ use_keyring /\ ~kr_ok, err)
  /\ UNCHANGED <<use_keyring, KEYRING_AVAILABLE>>

\* save_credentials returns normally (the file write did not raise)
SaveReturns(remember, kr_ok, file_ok) ==
  \/ ~remember
  \/ KEYRING_AVAILABLE /\ use_keyring /\ kr_ok
  \/ file_ok

\* what a read of a store can do: return what is stored, or raise (the keyring
\* is locked or its backend fails; the file is unreadable or is not JSON)
ReadOutcomes == {"ok", "raises"}

\* a wrong load_credentials: the file is read first
LoadCredentialsFileFirst(enabled, kr_read, file_read) ==
  IF credentials_file.present /\ file_read = "ok"
  THEN JsonLoads(credentials_file)
  ELSE IF KEYRING_AVAILABLE /\ enabled /\ kr_read = "ok" /\ keyring_store.present
  THEN JsonLoads(keyring_store)
  ELSE EmptyMap

\* load_credentials, with use_keyring = enabled: the mapping it returns
LoadCredentials(enabled, kr_read, file_read) ==
  IF KEYRING_AVAILABLE /\ enabled /\ kr_read = "ok" /\ keyring_store.present
  THEN JsonLoads(keyring_store)
  ELSE IF credentials_file.present
  THEN (IF file_read = "ok" THEN JsonLoads(credentials_file) ELSE EmptyMap)
  ELSE EmptyMap

(***************************************************************************)
(* Migration of plaintext auth files (migrate_all_credentials).            *)
(***************************************************************************)
AuthA == "/home/u/a.auth"
AuthB == "/home/u/b.auth"
AuthPaths == {AuthA, AuthB}

\* the auth-user-pass file the dump of a config names, None if it names none
AuthOf(config_path) ==
  IF config_path = PathA THEN AuthA
  ELSE IF config_path = PathB THEN AuthB
  ELSE None

\* a file on disk: its lines as readlines() returns them
File(lines) == [exists |-> TRUE, lines |-> lines]
NoFile == [exists |-> FALSE, lines |-> <<>>]
FileAt(fs, path) == IF path \in DOMAIN fs THEN fs[path] ELSE NoFile

\* what an auth file may hold: a user name alone, or a user name and a
\* password
AuthContents == { <<"alice\n">>, <<"alice\n", "pw\n">>, <<"bob\n", "pw">> }

\* str.strip()
Strip(text) ==
  CASE text = "alice\n" -> "alice"
    [] text = "bob\n" -> "bob"
    [] text = "pw\n" -> "pw"
    [] OTHER -> text

\* get_plaintext_auth_file: dumped says whether config-dump succeeded
GetPlaintextAuthFile(config_path, dumped) ==
  IF dumped /\ AuthOf(config_path) # None
            /\ FileAt(auth_files, AuthOf(config_path)).exists
  THEN AuthOf(config_path)
  ELSE None

\* the scan over self.config_paths.items(), in insertion order: the
\* findings <<display_name, config_path, auth_file>>
RECURSIVE ScanConfigs(_, _, _)
ScanConfigs(names, seen, dumps) ==
  IF Len(names) = 0 THEN <<>>
  ELSE LET n == Head(names) IN
       IF n \in seen \/ n \notin DOMAIN config_paths
       THEN ScanConfigs(Tail(names), seen, dumps)
       ELSE (IF GetPlaintextAuthFile(config_paths[n], dumps[n]) # None
             THEN << <<n, config_paths[n],
                       GetPlaintextAuthFile(config_paths[n], dumps[n])>> >>
             ELSE <<>>)
            \o ScanConfigs(Tail(names), seen \cup {n}, dumps)

\* what can go wrong with one finding: nothing; open() or readlines()
\* raises; the keyring write fails and the file write succeeds; both writes
\* of save_credentials fail; shutil.copy2 raises; os.chmod raises
FindingOutcomes ==
  {"ok", "read_raises", "keyring_raises", "save_raises", "copy_raises",
   "chmod_raises"}
KeyringOk(out) == out \notin {"keyring_raises", "save_raises"}
FileOk(out) == out # "save_raises"

\* save_credentials(display_name, username, password, remember=True) on the
\* state the loop has reached
SaveInto(st, name, u, p, kr_ok, file_ok) ==
  LET stored == (name :> Cred(u, p)) @@ st.stored IN
  IF KEYRING_AVAILABLE /\ use_keyring /\ kr_ok
  THEN [st EXCEPT !.stored = stored, !.keyring = JsonDumps(stored)]
  ELSE LET tried == [st EXCEPT !.kr_raised =
                       IF KEYRING_AVAILABLE /\ use_keyring THEN @ + 1 ELSE @] IN
       IF file_ok
       THEN [tried EXCEPT !.stored = stored, !.file = JsonDumps(stored)]
       ELSE [tried EXCEPT !.stored = stored]

\* the backup step raises
CopyRaises(disk, auth_file, copy) ==
  /\ ~FileAt(disk.backup, auth_file).exists
  /\ copy \in {"copy_raises", "chmod_raises"}

\* a wrong backup step: the copy is made whether or not a backup exists
CopyToBackupAlways(disk, auth_file, copy) ==
  IF copy = "copy_raises" THEN disk
  ELSE [disk EXCEPT !.backup =
          (auth_file :> FileAt(disk.auth, auth_file)) @@ disk.backup]

\* a wrong backup step: shutil.move in place of shutil.copy2
MoveToBackup(disk, auth_file, copy) ==
  IF FileAt(disk.backup, auth_file).exists \/ copy = "copy_raises" THEN disk
  ELSE [disk EXCEPT !.backup =
          (auth_file :> FileAt(disk.auth, auth_file)) @@ disk.backup,
                    !.auth = (auth_file :> NoFile) @@ disk.auth]

\* if not os.path.exists(backup_file): shutil.copy2(...); os.chmod(...)
CopyToBackup(disk, auth_file, copy) ==
  IF FileAt(disk.backup, auth_file).exists \/ copy = "copy_raises" THEN disk
  ELSE [disk EXCEPT !.backup =
          (auth_file :> FileAt(disk.auth, auth_file)) @@ disk.backup]

\* failed.append(f"{display_name}: ...")
Fail(st, name, reason) == [st EXCEPT !.failed = Append(@, <<name, reason>>)]

\* the body of the loop for one finding
MigrateOne(st, finding, out) ==
  LET name == finding[1]
      auth_file == finding[3]
      file == FileAt(st.disk.auth, auth_file)
  IN IF out = "read_raises" \/ ~file.exists
     THEN Fail(st, name, "cannot read")
     ELSE IF Len(file.lines) < 2
     THEN Fail(st, name, "Invalid auth file format")
     ELSE LET saved == SaveInto(st, name, Strip(file.lines[1]),
                                Strip(file.lines[2]), KeyringOk(out), FileOk(out))
          IN IF ~SaveReturns(TRUE, KeyringOk(out), FileOk(out))
             THEN Fail(saved, name, "cannot save")
             ELSE LET done == [saved EXCEPT
                                 !.migrated = @ + 1,
                                 !.disk = CopyToBackup(@, auth_file, out)]
                  IN IF CopyRaises(saved.disk, auth_file, out)
                     THEN Fail(done, name, "cannot back up")
                     ELSE done

\* a wrong loop: the first failure ends it
RECURSIVE MigrateLoopStopsAtFailure(_, _, _, _)
MigrateLoopStopsAtFailure(findings, outs, i, st) ==
  IF i > Len(findings) \/ st.failed # <<>> THEN st
  ELSE MigrateLoopStopsAtFailure(findings, outs, i + 1,
                                 MigrateOne(st, findings[i], outs[i]))

\* for display_name, config_path, auth_file in self.plaintext_configs
RECURSIVE MigrateLoop(_, _, _, _)
MigrateLoop(findings, outs, i, st) ==
  IF i > Len(findings) THEN st
  ELSE MigrateLoop(findings, outs, i + 1, MigrateOne(st, findings[i], outs[i]))

NoReport == [kind |-> "none", migrated |-> 0, failed |-> <<>>]
InfoDialog == Dialog("info", "", "", FALSE)

\* migrate_all_credentials, from the Tools menu
MigrateAllCredentialsOn(outs, dumps) ==
  /\ UserDid("migrate_all_credentials")
  /\ dialogs = <<>> /\ CanOpen
  /\ IF ~KEYRING_AVAILABLE
     THEN /\ dialogs' = <<ErrorDialog>>
          /\ UNCHANGED <<stored_credentials, keyring_store, credentials_file,
                         migVars, noticeVars>>
     ELSE LET found == IF plaintext_configs # <<>> THEN plaintext_configs
                       ELSE ScanConfigs(combo_items, {}, dumps)
              st == MigrateLoop(found, outs, 1,
                      [stored |-> stored_credentials, keyring |-> keyring_store,
                       file |-> credentials_file,
                       disk |-> [auth |-> auth_files, backup |-> backup_files],
                       migrated |-> 0, failed |-> <<>>, kr_raised |-> 0])
          IN /\ plaintext_configs' = found
             /\ dialogs' = <<InfoDialog>>
             /\ IF found = <<>>
                THEN /\ migration_report' = [NoReport EXCEPT !.kind = "nothing found"]
                     /\ UNCHANGED <<stored_credentials, keyring_store,
                                    credentials_file, auth_files, backup_files,
                                    noticeVars>>
                ELSE /\ \E err \in KeyringErrorsNow(st.kr_raised) :
                          SetNotice(NoticeTimes(NoticeNow, st.kr_raised, err))
                     /\ stored_credentials' = st.stored
                     /\ keyring_store' = st.keyring
                     /\ credentials_file' = st.file
                     /\ auth_files' = st.disk.auth
                     /\ backup_files' = st.disk.backup
                     /\ migration_report' =
                          [kind |-> "results", migrated |-> st.migrated,
                           failed |-> st.failed]
  /\ UNCHANGED <<worldVars, uiVars, cfgVars, use_keyring, KEYRING_AVAILABLE,
                 poll_timers, threads, chartVars, stats_texts>>

MigrateAllCredentials ==
  \E outs \in [1..Cardinality(AuthPaths) -> FindingOutcomes],
     dumps \in [DOMAIN config_paths -> BOOLEAN] :
    /\ plaintext_configs # <<>> => \A n \in DOMAIN dumps : dumps[n]
    /\ MigrateAllCredentialsOn(outs, dumps)

\* show_info returns
CloseInfo ==
  /\ last' = NoEvent
  /\ dialogs # <<>> /\ Top.kind = "info"
  /\ dialogs' = Pop
  /\ UNCHANGED <<worldVars, uiVars, cfgVars, credVars, poll_timers, threads,
                 chartVars, stats_texts, migVars>>

\* the user edits, replaces or deletes the auth file of a.ovpn outside the
\* program
AuthFileChanges ==
  /\ last' = NoEvent
  /\ \E path \in {AuthA}, f \in {File(c) : c \in AuthContents} \cup {NoFile} :
       /\ f # FileAt(auth_files, path)
       /\ auth_files' = (path :> f) @@ auth_files
  /\ UNCHANGED <<worldVars, uiVars, cfgVars, credVars, poll_timers, threads,
                 dialogs, chartVars, stats_texts, plaintext_configs,
                 backup_files, migration_report>>

(***************************************************************************)
(* Construction: openvpn3 is installed, so __init__ calls refresh_configs   *)
(* and registers the poll timer.  load_credentials has run.                 *)
(***************************************************************************)
\* the listing configs-list prints when the program starts
StartupListing == Header \o << <<Dashes>>, <<PathA, "0", "0">>, <<Dashes>> >>

InitSession ==
  /\ sessions = <<>>
  /\ world_configs = StartupListing
  /\ current_session = None
  /\ config_paths = EmptyMap
  /\ combo_items = <<>>
  /\ combo_active = 0
  /\ is_connecting = FALSE
  /\ status = ""
  /\ start_button = TRUE
  /\ stop_button = FALSE
  /\ poll_timers = 1
  /\ threads = One(Thread("configs-list", "", "update_combo"))
  /\ dialogs = <<>>
  /\ last = NoEvent

\* load_credentials finds neither a keyring entry nor credentials.json
InitCredentials ==
  /\ use_keyring = KEYRING_AVAILABLE
  /\ stored_credentials = EmptyMap
  /\ keyring_store = Absent
  /\ credentials_file = Absent
  /\ keyring_init_warning_shown = FALSE
  /\ keyring_fix_queued = 0
  /\ locked_failures = 0

\* the chart starts with two histories full of zeros
InitChart ==
  /\ bytes_in_history = ZeroHistory(chart_data_points)
  /\ bytes_out_history = ZeroHistory(chart_data_points)
  /\ last_bytes_in = 0
  /\ last_bytes_out = 0
  /\ updates = 0

\* no config uses a plaintext auth file
InitNoAuthFiles ==
  /\ plaintext_configs = <<>>
  /\ auth_files = EmptyMap
  /\ backup_files = EmptyMap
  /\ migration_report = NoReport

\* the keyring module is installed; session-stats prints well-formed reports
Init ==
  /\ KEYRING_AVAILABLE = TRUE
  /\ InitSession /\ InitCredentials /\ InitChart /\ InitNoAuthFiles
  /\ stats_texts = {StatsText}

(***************************************************************************)
(* User actions on the main window (no modal dialog is open).              *)
(***************************************************************************)
\* refresh_configs: the Refresh button
RefreshConfigs ==
  /\ UserDid("refresh_configs")
  /\ dialogs = <<>>
  /\ CanSpawn(1)
  /\ threads' = threads (+) One(Thread("configs-list", "", "update_combo"))
  /\ UNCHANGED <<worldVars, uiVars, cfgVars, credVars, poll_timers, dialogs>>
  /\ UNCHANGED <<chartVars, stats_texts, migVars>>

\* the user picks an entry of the combo box
SelectConfig ==
  /\ last' = NoEvent
  /\ dialogs = <<>>
  /\ \E i \in 1..Len(combo_items) :
       /\ i # combo_active
       /\ combo_active' = i
  /\ UNCHANGED <<worldVars, uiVars, config_paths, combo_items, credVars,
                 poll_timers, threads, dialogs>>
  /\ UNCHANGED <<chartVars, stats_texts, migVars>>

\* start_vpn: the Connect button
StartVpn ==
  /\ UserDid("start_vpn")
  /\ dialogs = <<>>
  /\ start_button
  /\ dialogs' =
       IF ValidSelection(ActiveText)
       THEN <<Dialog("cred", ActiveText, PathOf(ActiveText), FALSE)>>
       ELSE <<ErrorDialog>>
  /\ UNCHANGED <<worldVars, uiVars, cfgVars, credVars, poll_timers, threads>>
  /\ UNCHANGED <<chartVars, stats_texts, migVars>>

\* disconnect_session, called with the other threads thr
DisconnectSession(session_path, thr) ==
  /\ status' = "Disconnecting..."
  /\ threads' = thr (+) One(Thread("session-manage", session_path, "disconnect_done"))

\* stop_vpn: the Disconnect button
StopVpn ==
  /\ last' = NoEvent
  /\ dialogs = <<>>
  /\ stop_button
  /\ CanSpawn(1)
  /\ IF NoTracked(current_session)
     THEN /\ threads' = threads (+) One(Thread("sessions-list", "", "find_and_disconnect"))
          /\ UNCHANGED status
     ELSE DisconnectSession(current_session, threads)
  /\ UNCHANGED <<worldVars, current_session, is_connecting, start_button,
                 stop_button, cfgVars, credVars, poll_timers, dialogs>>
  /\ UNCHANGED <<chartVars, stats_texts, migVars>>

\* update_status: issues the sessions-list poll
UpdateStatus(thr) ==
  threads' = thr (+) One(Thread("sessions-list", "", "process_status"))

\* a repeating timer calls update_status
TimerFires ==
  /\ last' = NoEvent
  /\ poll_timers >= 1
  /\ CanSpawn(1)
  /\ UpdateStatus(threads)
  /\ UNCHANGED <<worldVars, uiVars, cfgVars, credVars, poll_timers, dialogs>>
  /\ UNCHANGED <<chartVars, stats_texts, migVars>>

(***************************************************************************)
(* Dialogs.  dialog.run() is a nested main loop: while a dialog is open    *)
(* timers fire and idle callbacks run, and the user can act only on the    *)
(* innermost dialog.                                                       *)
(***************************************************************************)
\* what the user may type into the credential dialog
DialogUsers == {"", "alice"}
DialogPasswords == {"pw"}
\* the user leaves "Remember credentials" unticked
DialogRemember == {FALSE}

\* start_vpn_with_credentials, up to starting the thread
StartVpnWithCredentials(config_path, username, password) ==
  /\ is_connecting' = TRUE
  /\ status' = "Connecting..."
  /\ start_button' = FALSE
  /\ threads' = threads (+) One([Thread("session-start", config_path, "start_done")
                                  EXCEPT !.input = <<username, password>>])

\* show_credential_dialog, OK pressed
CredentialDialogOk ==
  /\ last' = NoEvent
  /\ dialogs # <<>> /\ Top.kind = "cred"
  /\ \E u \in DialogUsers, pw \in DialogPasswords, remember \in DialogRemember,
        kr_ok \in BOOLEAN, file_ok \in BOOLEAN :
       IF u # "" /\ pw # ""
       THEN /\ SaveCredentials(Top.name, u, pw, remember, kr_ok, file_ok)
            /\ IF SaveReturns(remember, kr_ok, file_ok)
               THEN /\ CanSpawn(1)
                    /\ StartVpnWithCredentials(Top.path, u, pw)
               ELSE UNCHANGED <<is_connecting, status, start_button, threads>>
            /\ dialogs' = Pop
       ELSE /\ dialogs' = Append(Pop, Dialog("error_enable", "", "", FALSE))
            /\ UNCHANGED <<credVars, is_connecting, status, start_button, threads>>
  /\ UNCHANGED <<worldVars, current_session, stop_button, cfgVars, poll_timers>>
  /\ UNCHANGED <<chartVars, stats_texts, migVars>>

\* show_credential_dialog, cancelled
CredentialDialogCancel ==
  /\ last' = NoEvent
  /\ dialogs # <<>> /\ Top.kind = "cred"
  /\ dialogs' = Pop
  /\ start_button' = TRUE
  /\ UNCHANGED <<worldVars, current_session, is_connecting, status, stop_button,
                 cfgVars, credVars, poll_timers, threads>>
  /\ UNCHANGED <<chartVars, stats_texts, migVars>>

\* show_error returns; after "Username and password are required" the
\* credential dialog re-enables Connect
CloseError ==
  /\ last' = NoEvent
  /\ dialogs # <<>> /\ Top.kind \in {"error", "error_enable"}
  /\ dialogs' = Pop
  /\ start_button' = IF Top.kind = "error_enable" THEN TRUE ELSE start_button
  /\ UNCHANGED <<worldVars, current_session, is_connecting, status, stop_button,
                 cfgVars, credVars, poll_timers, threads>>
  /\ UNCHANGED <<chartVars, stats_texts, migVars>>

\* show_question returns in start_done: on Yes the credential dialog opens in
\* retry mode for the entry that is selected now
AnswerQuestion ==
  /\ last' = NoEvent
  /\ dialogs # <<>> /\ Top.kind = "question"
  /\ \E yes \in BOOLEAN :
       dialogs' = IF yes
                  THEN Append(Pop, Dialog("cred", ActiveText, Top.path, TRUE))
                  ELSE Pop
  /\ UNCHANGED <<worldVars, uiVars, cfgVars, credVars, poll_timers, threads>>
  /\ UNCHANGED <<chartVars, stats_texts, migVars>>

(***************************************************************************)
(* The control plane.                                                      *)
(***************************************************************************)
Live(ref) == ref \in SeqToSet(sessions)

\* a session ends on its own (the tunnel drops, or another client stops it)
SessionDrops ==
  /\ last' = NoEvent
  /\ \E i \in 1..Len(sessions) : sessions' = RemoveAt(sessions, i)
  /\ UNCHANGED <<world_configs, uiVars, cfgVars, credVars, poll_timers, threads,
                 dialogs>>
  /\ UNCHANGED <<chartVars, stats_texts, migVars>>

\* configs are imported, renamed or removed outside the program
ConfigsChange ==
  /\ last' = NoEvent
  /\ \E l \in ConfigListings : l # world_configs /\ world_configs' = l
  /\ UNCHANGED <<sessions, uiVars, cfgVars, credVars, poll_timers, threads, dialogs>>
  /\ UNCHANGED <<chartVars, stats_texts, migVars>>

\* the ref the control plane gives the next session
NextRef == CHOOSE r \in SessionRefs \ SeqToSet(sessions) :
             \A q \in SessionRefs \ SeqToSet(sessions) : r = S1 \/ q # S1
CanCreate == SessionRefs \ SeqToSet(sessions) # {}

\* the outcomes of the command a thread runs, with the control plane's
\* sessions after it: <<result, sessions'>>.  Every command may time out;
\* the commands the user starts may also fail to launch
CommandOutcomes(t) ==
  LET timeout == {<<TimedOut, sessions>>}
      fail == {<<TimedOut, sessions>>, <<LaunchFailed, sessions>>} IN
  CASE t.cmd = "configs-list" ->
         {<<Rc0(world_configs), sessions>>, <<RcN("failed"), sessions>>} \cup fail
    [] t.cmd = "sessions-list" ->
         {<<Rc0(o), sessions>> : o \in SessionsListOutputs(sessions)}
         \cup {<<RcN("failed"), sessions>>} \cup timeout
    [] t.cmd = "session-stats" ->
         (IF Live(t.arg) THEN {<<Rc0(o), sessions>> : o \in stats_texts}
          ELSE {<<RcN("failed"), sessions>>}) \cup timeout
    [] t.cmd = "session-manage" ->
         (IF Live(t.arg)
          THEN {<<Rc0(<<>>), Without(sessions, t.arg)>>,
                <<TimedOut, Without(sessions, t.arg)>>}
          ELSE {<<RcN("failed"), sessions>>}) \cup fail
    [] t.cmd = "session-start" ->
         (IF CanCreate
          THEN {<<Rc0(o), Append(sessions, NextRef)>> : o \in StartOutputs(NextRef)}
               \cup {<<TimedOut, Append(sessions, NextRef)>>}
          ELSE {})
         \cup {<<RcN(e), sessions>> : e \in {ErrAuth, ErrOther}} \cup fail

(***************************************************************************)
(* Worker threads.                                                         *)
(***************************************************************************)
\* subprocess.run / proc.communicate returns or raises in a thread
ThreadRuns ==
  /\ last' = NoEvent
  /\ \E t \in Alive :
       /\ t.res.kind = "none"
       /\ \E o \in CommandOutcomes(t) :
            /\ threads' = (threads (-) One(t)) (+) One([t EXCEPT !.res = o[1]])
            /\ sessions' = o[2]
  /\ UNCHANGED <<world_configs, uiVars, cfgVars, credVars, poll_timers, dialogs>>
  /\ UNCHANGED <<chartVars, stats_texts, migVars>>

\* the command returned an exit status: GLib.idle_add(callback, result)
Delivered(t, cb) == t.cb = cb /\ t.res.kind \in {"rc0", "rcN"}
\* subprocess raised TimeoutExpired or another exception
Raised(t) == t.res.kind \in {"timeout", "exc"}

\* wrong except branches: the guard is left set
StartThreadRaisesKeepsGuard ==
  /\ last' = NoEvent
  /\ \E t \in Alive :
       /\ t.cmd = "session-start" /\ Raised(t) /\ t.queued = ""
       /\ threads' = (threads (-) One(t)) (+) One([t EXCEPT !.queued = "show_error"])
  /\ UNCHANGED <<worldVars, uiVars, cfgVars, credVars, poll_timers, dialogs>>
  /\ UNCHANGED <<chartVars, stats_texts, migVars>>

\* the except branches of run() in start_vpn_with_credentials: the thread
\* itself clears is_connecting, then queues show_error and the re-enabling
\* of Connect
StartThreadRaises ==
  /\ last' = NoEvent
  /\ \E t \in Alive :
       /\ t.cmd = "session-start" /\ Raised(t) /\ t.queued = ""
       /\ threads' = (threads (-) One(t)) (+) One([t EXCEPT !.queued = "show_error"])
  /\ is_connecting' = FALSE
  /\ UNCHANGED <<worldVars, current_session, status, start_button, stop_button,
                 cfgVars, credVars, poll_timers, dialogs>>
  /\ UNCHANGED <<chartVars, stats_texts, migVars>>

\* show_error, queued by the except branches of run_command's run() and of
\* the start thread
ShowError ==
  /\ CanOpen
  /\ dialogs' = Append(dialogs, ErrorDialog)
  /\ \E t \in Alive :
       /\ Raised(t)
       /\ last' = Event("show_error", t)
       /\ IF t.cmd = "session-start"
          THEN /\ t.queued = "show_error"
               /\ threads' = (threads (-) One(t))
                             (+) One([t EXCEPT !.queued = "enable_start"])
          ELSE threads' = threads (-) One(t)
  /\ UNCHANGED <<worldVars, uiVars, cfgVars, credVars, poll_timers>>
  /\ UNCHANGED <<chartVars, stats_texts, migVars>>

\* lambda: self.start_button.set_sensitive(True)
EnableStart ==
  /\ \E t \in Alive :
       /\ t.queued = "enable_start"
       /\ last' = NoEvent
       /\ threads' = threads (-) One(t)
  /\ start_button' = TRUE
  /\ UNCHANGED <<worldVars, current_session, is_connecting, status, stop_button,
                 cfgVars, credVars, poll_timers, dialogs>>
  /\ UNCHANGED <<chartVars, stats_texts, migVars>>

(***************************************************************************)
(* Callbacks run by the main loop, one action per handler.  t is the       *)
(* thread whose result the callback receives; it ends with the callback.   *)
(***************************************************************************)
\* update_combo
UpdateComboOn(t) ==
  /\ Handled(t)
  /\ Delivered(t, "update_combo")
  /\ threads' = threads (-) One(t)
  /\ IF t.res.kind = "rc0"
     THEN /\ config_paths' = ConfigPathsOf(DropHeader(t.res.out), EmptyMap)
          /\ combo_items' = ComboItemsOf(DropHeader(t.res.out))
          /\ combo_active' = IF Len(combo_items') > 0 THEN 1 ELSE 0
     ELSE /\ config_paths' = EmptyMap
          /\ combo_items' = <<NoConfigs>>
          /\ combo_active' = 0
  /\ UNCHANGED <<worldVars, uiVars, credVars, poll_timers, dialogs>>
  /\ UNCHANGED <<chartVars, stats_texts, migVars>>

UpdateCombo == \E t \in Alive : UpdateComboOn(t)

\* find_and_disconnect
FindAndDisconnectOn(t) ==
  /\ Handled(t)
  /\ Delivered(t, "find_and_disconnect")
  /\ IF t.res.kind = "rc0" /\ FindFirstSession(t.res.out) # None
     THEN DisconnectSession(FindFirstSession(t.res.out), threads (-) One(t))
     ELSE /\ threads' = threads (-) One(t)
          /\ UNCHANGED status
  /\ UNCHANGED <<worldVars, current_session, is_connecting, start_button,
                 stop_button, cfgVars, credVars, poll_timers, dialogs>>
  /\ UNCHANGED <<chartVars, stats_texts, migVars>>

FindAndDisconnect == \E t \in Alive : FindAndDisconnectOn(t)

\* disconnect_done
DisconnectDoneOn(t) ==
  /\ Handled(t)
  /\ Delivered(t, "disconnect_done")
  /\ IF t.res.kind = "rc0"
     THEN /\ current_session' = None
          /\ start_button' = TRUE
          /\ stop_button' = FALSE
          /\ status' = "Disconnected"
          /\ threads' = MarkStale(threads (-) One(t), "stop")
          /\ UNCHANGED dialogs
     ELSE /\ CanOpen
          /\ UpdateStatus(threads (-) One(t))
          /\ dialogs' = Append(dialogs, ErrorDialog)
          /\ UNCHANGED <<current_session, start_button, stop_button, status>>
  /\ UNCHANGED <<worldVars, is_connecting, cfgVars, credVars, poll_timers>>
  /\ UNCHANGED <<chartVars, stats_texts, migVars>>

DisconnectDone == \E t \in Alive : DisconnectDoneOn(t)

\* a wrong branch: the guard is not read
ShowDisconnectedAlways ==
  /\ stop_button' = FALSE
  /\ start_button' = TRUE
  /\ status' = "Disconnected"

\* the guarded branch shared by process_status and process_session_status:
\*   if not getattr(self, 'is_connecting', False): ... "Disconnected"
ShowDisconnectedUnlessConnecting ==
  IF ~is_connecting
  THEN /\ stop_button' = FALSE
       /\ start_button' = TRUE
       /\ status' = "Disconnected"
  ELSE UNCHANGED <<stop_button, start_button, status>>

\* check_session_status, called with the other threads thr
CheckSessionStatus(session_path, thr) ==
  threads' = thr (+) One(Thread("session-stats", session_path,
                                "process_session_status"))

\* process_status: the completion of the sessions-list poll
ProcessStatusOn(t) ==
  /\ Handled(t)
  /\ Delivered(t, "process_status")
  /\ IF t.res.kind = "rc0" /\ NonBlank(t.res.out)
        /\ ParseSessionList(t.res.out) # <<>>
     THEN /\ CheckSessionStatus(ParseSessionList(t.res.out)[1], threads (-) One(t))
          /\ UNCHANGED <<stop_button, start_button, status>>
     ELSE /\ ShowDisconnectedUnlessConnecting
          /\ threads' = threads (-) One(t)
  /\ UNCHANGED <<worldVars, current_session, is_connecting, cfgVars, credVars,
                 poll_timers, dialogs>>
  /\ UNCHANGED <<chartVars, stats_texts, migVars>>

ProcessStatus == \E t \in Alive : ProcessStatusOn(t)

\* process_session_status: the completion of the session-stats poll
ProcessSessionStatusOn(t) ==
  /\ Handled(t)
  /\ Delivered(t, "process_session_status")
  /\ threads' = threads (-) One(t)
  /\ IF t.res.kind = "rc0"
     THEN /\ current_session' = t.arg
          /\ stop_button' = TRUE
          /\ start_button' = FALSE
          /\ UpdateChartData(ParseSessionStats(t.res.out)[1],
                             ParseSessionStats(t.res.out)[2])
          /\ status' = "Connected"
     ELSE /\ ShowDisconnectedUnlessConnecting
          /\ UNCHANGED <<current_session, bytes_in_history, bytes_out_history,
                         last_bytes_in, last_bytes_out>>
  /\ UNCHANGED <<worldVars, is_connecting, cfgVars, credVars, poll_timers, dialogs>>
  /\ UNCHANGED <<updates, stats_texts, migVars>>

ProcessSessionStatus == \E t \in Alive : ProcessSessionStatusOn(t)

\* start_done: the completion of session-start
StartDoneOn(t) ==
  /\ Handled(t)
  /\ Delivered(t, "start_done")
  /\ is_connecting' = FALSE
  /\ IF t.res.kind = "rc0"
     THEN /\ start_button' = FALSE
          /\ stop_button' = TRUE
          /\ current_session' = ExtractStartedSession(t.res.out, current_session)
          /\ status' = "Connected Successfully"
          /\ poll_timers' = IF poll_timers < MaxTimers THEN poll_timers + 1
                            ELSE poll_timers
          /\ threads' = MarkStale(threads (-) One(t), "start")
          /\ UNCHANGED dialogs
     ELSE /\ CanOpen
          /\ start_button' = TRUE
          /\ dialogs' = Append(dialogs,
                               IF IsAuthError(t.res.err)
                               THEN Dialog("question", "", t.arg, FALSE)
                               ELSE ErrorDialog)
          /\ threads' = threads (-) One(t)
          /\ UNCHANGED <<stop_button, current_session, status, poll_timers>>
  /\ UNCHANGED <<worldVars, cfgVars, credVars>>
  /\ UNCHANGED <<chartVars, stats_texts, migVars>>

StartDone == \E t \in Alive : StartDoneOn(t)

(***************************************************************************)
(* Tools > Clean Up Stale Sessions.                                        *)
(***************************************************************************)
\* how the subprocess.run of one session's disconnect ends inside
\* cleanup_done: it returns an exit status, it raises after the session was
\* taken down (the timeout of 5 s), or it raises with nothing done
CleanupOutcomes == {"returns", "lost", "raises"}

\* one error entry of cleanup_done: "Failed to clean <path>" after a
\* non-zero exit, "Error cleaning <path>: ..." after an exception
CleanupError(text, path) == [text |-> text, path |-> path]

\* one pass of the for loop of cleanup_done over session_path
CleanupOne(st, path, out) ==
  LET live == path \in SeqToSet(st.sessions) IN
  IF out = "returns"
  THEN IF live
       THEN [st EXCEPT !.sessions = Without(st.sessions, path),
                       !.cleaned = st.cleaned + 1]
       ELSE [st EXCEPT !.errors = Append(st.errors, CleanupError("Failed", path))]
  ELSE [st EXCEPT !.sessions = IF out = "lost" /\ live
                               THEN Without(st.sessions, path)
                               ELSE st.sessions,
                  !.errors = Append(st.errors, CleanupError("Error", path))]

\* a wrong loop: the first session that fails ends the clean-up
RECURSIVE CleanupLoopStopsAtFailure(_, _, _, _)
CleanupLoopStopsAtFailure(session_paths, outs, i, st) ==
  IF i > Len(session_paths) \/ st.errors # <<>> THEN st
  ELSE CleanupLoopStopsAtFailure(session_paths, outs, i + 1,
                                 CleanupOne(st, session_paths[i], outs[i]))

\* for session_path in session_paths: try ... except Exception
RECURSIVE CleanupLoop(_, _, _, _)
CleanupLoop(session_paths, outs, i, st) ==
  IF i > Len(session_paths) THEN st
  ELSE CleanupLoop(session_paths, outs, i + 1,
                   CleanupOne(st, session_paths[i], outs[i]))

\* the result dialog of cleanup_done: show_info with the count and the
\* errors when a session was cleaned, show_error with the errors when none
ReportDialog(st) ==
  [kind |-> IF st.cleaned > 0 THEN "cleanup_info" ELSE "cleanup_error",
   name |-> "", path |-> "", retry |-> FALSE,
   cleaned |-> st.cleaned, errors |-> st.errors]

\* cleanup_stale_sessions, from the Tools menu: the question dialog opens
CleanupStaleSessions ==
  /\ UserDid("cleanup_stale_sessions")
  /\ dialogs = <<>> /\ CanOpen
  /\ dialogs' = <<Dialog("cleanup_question", "", "", FALSE)>>
  /\ UNCHANGED <<worldVars, uiVars, cfgVars, credVars, poll_timers, threads,
                 chartVars, stats_texts, migVars>>

\* dialog.run() returns: on Yes the listing is requested with cleanup_done as
\* its callback
AnswerCleanup ==
  /\ last' = NoEvent
  /\ dialogs # <<>> /\ Top.kind = "cleanup_question"
  /\ dialogs' = Pop
  /\ \E yes \in BOOLEAN :
       IF yes
       THEN /\ CanSpawn(1)
            /\ threads' = threads (+) One(Thread("sessions-list", "", "cleanup_done"))
       ELSE UNCHANGED threads
  /\ UNCHANGED <<worldVars, uiVars, cfgVars, credVars, poll_timers,
                 chartVars, stats_texts, migVars>>

\* cleanup_done: the completion of the listing; the disconnects run inside
\* the callback, one after the other
CleanupDoneOn(t) ==
  /\ Handled(t)
  /\ Delivered(t, "cleanup_done")
  /\ CanOpen
  /\ threads' = threads (-) One(t)
  /\ LET session_paths == IF t.res.kind = "rc0" /\ NonBlank(t.res.out)
                          THEN ParseSessionList(t.res.out)
                          ELSE <<>> IN
     IF session_paths = <<>>
     THEN /\ dialogs' = Append(dialogs, InfoDialog)
          /\ UNCHANGED sessions
     ELSE \E outs \in [1..Len(session_paths) -> CleanupOutcomes] :
            LET st == CleanupLoop(session_paths, outs, 1,
                                  [sessions |-> sessions, cleaned |-> 0,
                                   errors |-> <<>>]) IN
            /\ sessions' = st.sessions
            /\ dialogs' = Append(dialogs, ReportDialog(st))
  /\ UNCHANGED <<world_configs, uiVars, cfgVars, credVars, poll_timers,
                 chartVars, stats_texts, migVars>>

CleanupDone == \E t \in Alive : CleanupDoneOn(t)

\* show_info / show_error returns in cleanup_done: self.update_status()
CloseCleanupReport ==
  /\ last' = NoEvent
  /\ dialogs # <<>> /\ Top.kind \in {"cleanup_info", "cleanup_error"}
  /\ dialogs' = Pop
  /\ CanSpawn(1)
  /\ UpdateStatus(threads)
  /\ UNCHANGED <<worldVars, uiVars, cfgVars, credVars, poll_timers,
                 chartVars, stats_texts, migVars>>

(***************************************************************************)
(* The session state machine: the program after start-up, the user         *)
(* connecting and disconnecting, the poll timer and the control plane.     *)
(***************************************************************************)
Next ==
  \/ SelectConfig \/ StartVpn \/ StopVpn \/ TimerFires
  \/ CredentialDialogOk \/ CredentialDialogCancel \/ CloseError \/ AnswerQuestion
  \/ SessionDrops
  \/ ThreadRuns \/ StartThreadRaises \/ ShowError \/ EnableStart
  \/ UpdateCombo \/ FindAndDisconnect \/ DisconnectDone
  \/ ProcessStatus \/ ProcessSessionStatus \/ StartDone

Spec == Init /\ [][Next]_vars

(***************************************************************************)
(* The config list: the user refreshes it while configs come and go.       *)
(***************************************************************************)
NextConfigs ==
  \/ RefreshConfigs \/ SelectConfig \/ ConfigsChange
  \/ ThreadRuns \/ ShowError \/ CloseError \/ UpdateCombo

SpecConfigs == Init /\ [][NextConfigs]_vars

(***************************************************************************)
(* The credential store on its own: saves and the keyring switch, with and *)
(* without the keyring module.                                             *)
(***************************************************************************)
CredNames == {"a.ovpn", "b.ovpn"}
CredUsers == {"alice", "bob"}
CredPasswords == {"pw"}

\* save_credentials(display_name, username, password, remember=True), as the
\* credential dialogs and the migration call it
SaveCredentialsCall ==
  /\ UserDid("save_credentials")
  /\ \E name \in CredNames, u \in CredUsers, p \in CredPasswords,
        kr_ok \in BOOLEAN, file_ok \in BOOLEAN :
       SaveCredentials(name, u, p, TRUE, kr_ok, file_ok)
  /\ UNCHANGED <<worldVars, uiVars, cfgVars, poll_timers, threads, dialogs>>
  /\ UNCHANGED <<chartVars, stats_texts, migVars>>

\* a wrong toggle: enabling the keyring moves the mapping in memory into it
ToggleKeyringSupportMigrates ==
  /\ UserDid("toggle_keyring_support")
  /\ \E active \in BOOLEAN :
       /\ use_keyring' = (active /\ KEYRING_AVAILABLE)
       /\ keyring_store' = IF use_keyring' THEN JsonDumps(stored_credentials)
                           ELSE keyring_store
  /\ UNCHANGED <<stored_credentials, KEYRING_AVAILABLE, credentials_file,
                 noticeVars>>
  /\ UNCHANGED <<worldVars, uiVars, cfgVars, poll_timers, threads, dialogs>>
  /\ UNCHANGED <<chartVars, stats_texts, migVars>>

\* toggle_keyring_support: the "Use System Keyring" check item
ToggleKeyringSupport ==
  /\ UserDid("toggle_keyring_support")
  /\ \E active \in BOOLEAN :
       use_keyring' = IF ~active THEN FALSE
                      ELSE IF ~KEYRING_AVAILABLE THEN FALSE
                      ELSE TRUE
  /\ UNCHANGED <<stored_credentials, KEYRING_AVAILABLE, keyring_store,
                 credentials_file, noticeVars>>
  /\ UNCHANGED <<worldVars, uiVars, cfgVars, poll_timers, threads, dialogs>>
  /\ UNCHANGED <<chartVars, stats_texts, migVars>>

\* the program is started again: __init__ sets use_keyring and loads the
\* credentials that the stores kept
LoadCredentialsOn(kr_read, file_read) ==
  /\ UserDid("load_credentials")
  /\ use_keyring' = KEYRING_AVAILABLE
  /\ stored_credentials' = LoadCredentials(use_keyring', kr_read, file_read)
  /\ \E err \in KeyringErrors :
       KeyringNoticeAtStart(KEYRING_AVAILABLE /\ kr_read = "raises", err)
  /\ UNCHANGED <<KEYRING_AVAILABLE, keyring_store, credentials_file>>
  /\ UNCHANGED <<worldVars, uiVars, cfgVars, poll_timers, threads, dialogs>>
  /\ UNCHANGED <<chartVars, stats_texts, migVars>>

Restart == \E kr_read \in ReadOutcomes, file_read \in ReadOutcomes :
             LoadCredentialsOn(kr_read, file_read)

InitCred ==
  /\ KEYRING_AVAILABLE \in BOOLEAN
  /\ InitSession /\ InitCredentials /\ InitChart /\ InitNoAuthFiles
  /\ stats_texts = {StatsText}

NextCred == SaveCredentialsCall \/ ToggleKeyringSupport \/ Restart

SpecCred == InitCred /\ [][NextCred]_vars

(***************************************************************************)
(* The credential file when the process dies inside save_credentials: the  *)
(* program is killed during the fallback write and is started again.       *)
(***************************************************************************)
\* where the fallback write of save_credentials can be cut short: after
\* open(self.credentials_file, 'w') has truncated or created the file and
\* before the document is flushed, or after the with block and before
\* os.chmod
CrashPoints == {"opened", "dumped"}

\* the permission bits of the file: a file that save_credentials or
\* load_credentials finished with is 0o600; a file that open() created is
\* as wide as the umask lets it be
ModeOf(f) == IF "mode" \in DOMAIN f THEN f.mode ELSE "0600"
IsTorn(f) == "torn" \in DOMAIN f /\ f.torn

\* what is on disk when the write of the mapping m stops at the point at
FileLeftBy(at, m) ==
  LET mode == IF credentials_file.present THEN ModeOf(credentials_file)
              ELSE "umask" IN
  IF at = "opened"
  THEN [present |-> TRUE, json |-> EmptyMap, torn |-> TRUE, mode |-> mode]
  ELSE IF mode = "0600" THEN JsonDumps(m)
  ELSE [present |-> TRUE, json |-> m, torn |-> FALSE, mode |-> mode]

\* save_credentials is cut short in its fallback write, and __init__ runs
\* again: load_credentials returns the keyring's mapping if it has one;
\* otherwise it reads the file, and after a successful json.load it sets
\* the file to 0o600
SaveCredentialsCrashesOn(name, u, p, at, kr_read, file_read) ==
  LET left == FileLeftBy(at, SaveMemory(name, u, p, TRUE)) IN
  /\ UserDid("load_credentials")
  /\ use_keyring' = KEYRING_AVAILABLE
  /\ IF KEYRING_AVAILABLE /\ kr_read = "ok" /\ keyring_store.present
     THEN /\ stored_credentials' = JsonLoads(keyring_store)
          /\ credentials_file' = left
     ELSE IF IsTorn(left) \/ file_read = "raises"
     THEN /\ stored_credentials' = EmptyMap
          /\ credentials_file' = left
     ELSE /\ stored_credentials' = JsonLoads(left)
          /\ credentials_file' = JsonDumps(JsonLoads(left))
  /\ \E err \in KeyringErrors :
       KeyringNoticeAtStart(KEYRING_AVAILABLE /\ kr_read = "raises", err)
  /\ UNCHANGED <<KEYRING_AVAILABLE, keyring_store>>
  /\ UNCHANGED <<worldVars, uiVars, cfgVars, poll_timers, threads, dialogs>>
  /\ UNCHANGED <<chartVars, stats_texts, migVars>>

SaveCredentialsCrashes ==
  \E name \in CredNames, u \in CredUsers, p \in CredPasswords,
     at \in CrashPoints, kr_read \in ReadOutcomes, file_read \in ReadOutcomes :
    SaveCredentialsCrashesOn(name, u, p, at, kr_read, file_read)

NextCrash ==
  \/ SaveCredentialsCall \/ ToggleKeyringSupport \/ Restart
  \/ SaveCredentialsCrashes

SpecCrash == InitCred /\ [][NextCrash]_vars

(***************************************************************************)
(* The traffic chart on its own: update_chart_data called with a sequence  *)
(* of counter readings.                                                    *)
(***************************************************************************)
\* <<bytes_in, bytes_out>> readings
Samples == {<<100, 50>>, <<80, 60>>, <<120, 60>>, <<0, 0>>}

UpdateChartDataOn(sample) ==
  /\ UserDid("update_chart_data")
  /\ updates < MaxUpdates
  /\ updates' = updates + 1
  /\ UpdateChartData(sample[1], sample[2])
  /\ UNCHANGED <<worldVars, uiVars, cfgVars, credVars, poll_timers, threads,
                 dialogs, stats_texts, migVars>>

UpdateChartDataCall == \E sample \in Samples : UpdateChartDataOn(sample)

NextChart == UpdateChartDataCall

SpecChart == Init /\ [][NextChart]_vars

(***************************************************************************)
(* The status poll of a running session: the program is started while a    *)
(* session exists, and session-stats prints whole and damaged reports.     *)
(***************************************************************************)
InitStats ==
  /\ KEYRING_AVAILABLE = TRUE
  /\ sessions = <<S1>>
  /\ world_configs = StartupListing
  /\ current_session = None
  /\ config_paths = EmptyMap
  /\ combo_items = <<>>
  /\ combo_active = 0
  /\ is_connecting = FALSE
  /\ status = ""
  /\ start_button = TRUE
  /\ stop_button = FALSE
  /\ poll_timers = 1
  /\ threads = One(Thread("configs-list", "", "update_combo"))
  /\ dialogs = <<>>
  /\ last = NoEvent
  /\ InitCredentials /\ InitChart /\ InitNoAuthFiles
  /\ stats_texts = StatsTexts

NextStats ==
  \/ TimerFires \/ ThreadRuns \/ ShowError \/ CloseError
  \/ UpdateCombo \/ ProcessStatus \/ ProcessSessionStatus

SpecStats == InitStats /\ [][NextStats]_vars

(***************************************************************************)
(* Migration: the config list is loaded, two configs name an auth file,    *)
(* and the user runs the migration while the files change on disk.  The    *)
(* scan that follows construction has found nothing yet.                   *)
(***************************************************************************)
InitMigrate ==
  /\ KEYRING_AVAILABLE \in BOOLEAN
  /\ sessions = <<>>
  /\ world_configs = Header \o << <<PathA, "0", "0">>, <<PathB, "1", "0">> >>
  /\ current_session = None
  /\ config_paths = ("a.ovpn" :> PathA) @@ ("b.ovpn" :> PathB)
  /\ combo_items = <<"a.ovpn", "b.ovpn">>
  /\ combo_active = 1
  /\ is_connecting = FALSE
  /\ status = ""
  /\ start_button = TRUE
  /\ stop_button = FALSE
  /\ poll_timers = 1
  /\ threads = EmptyBag
  /\ dialogs = <<>>
  /\ last = NoEvent
  /\ InitCredentials /\ InitChart
  /\ stats_texts = {StatsText}
  /\ plaintext_configs = <<>>
  /\ auth_files = (AuthA :> File(<<"alice\n", "pw\n">>))
                  @@ (AuthB :> File(<<"bob\n", "pw">>))
  /\ backup_files = EmptyMap
  /\ migration_report = NoReport

NextMigrate ==
  MigrateAllCredentials \/ CloseInfo \/ CloseError \/ AuthFileChanges

SpecMigrate == InitMigrate /\ [][NextMigrate]_vars

(***************************************************************************)
(* The clean-up of stale sessions: the program is started while two        *)
(* sessions of an earlier run exist, and the user runs the clean-up while  *)
(* sessions end on their own.                                              *)
(***************************************************************************)
InitCleanup ==
  /\ KEYRING_AVAILABLE = TRUE
  /\ sessions = <<S1, S2>>
  /\ world_configs = StartupListing
  /\ current_session = None
  /\ config_paths = EmptyMap
  /\ combo_items = <<>>
  /\ combo_active = 0
  /\ is_connecting = FALSE
  /\ status = ""
  /\ start_button = TRUE
  /\ stop_button = FALSE
  /\ poll_timers = 1
  /\ threads = One(Thread("configs-list", "", "update_combo"))
  /\ dialogs = <<>>
  /\ last = NoEvent
  /\ InitCredentials /\ InitChart /\ InitNoAuthFiles
  /\ stats_texts = StatsTexts

NextCleanup ==
  \/ CleanupStaleSessions \/ AnswerCleanup \/ CleanupDone \/ CloseCleanupReport
  \/ CloseInfo \/ SessionDrops
  \/ ThreadRuns \/ ShowError \/ CloseError
  \/ UpdateCombo \/ ProcessStatus \/ ProcessSessionStatus

SpecCleanup == InitCleanup /\ [][NextCleanup]_vars

(***************************************************************************)
(* Rejected starts: two configs are listed, and the user selects, refreshes *)
(* and connects while session-start may reject the credentials.            *)
(***************************************************************************)
InitRetry ==
  /\ KEYRING_AVAILABLE = TRUE
  /\ sessions = <<>>
  /\ world_configs = Header \o << <<PathA, "0", "0">>, <<PathB, "1", "0">> >>
  /\ current_session = None
  /\ config_paths = ("a.ovpn" :> PathA) @@ ("b.ovpn" :> PathB)
  /\ combo_items = <<"a.ovpn", "b.ovpn">>
  /\ combo_active = 1
  /\ is_connecting = FALSE
  /\ status = ""
  /\ start_button = TRUE
  /\ stop_button = FALSE
  /\ poll_timers = 1
  /\ threads = EmptyBag
  /\ dialogs = <<>>
  /\ last = NoEvent
  /\ InitCredentials /\ InitChart /\ InitNoAuthFiles
  /\ stats_texts = {StatsText}

NextRetry ==
  \/ SelectConfig \/ RefreshConfigs \/ StartVpn
  \/ CredentialDialogOk \/ CredentialDialogCancel \/ CloseError \/ AnswerQuestion
  \/ ThreadRuns \/ StartThreadRaises \/ ShowError \/ EnableStart
  \/ UpdateCombo \/ StartDone

SpecRetry == InitRetry /\ [][NextRetry]_vars

(***************************************************************************)
(* Connection attempts under fair scheduling: a command that was started   *)
(* returns or raises (session-start within its timeout of 30 s), the main  *)
(* loop runs the callbacks that are queued, an error dialog is             *)
(* dismissed and a question or a credential dialog is answered.           *)
(* start_done is queued once and runs whatever dialogs come and go in the  *)
(* meantime, hence the strong fairness.                                    *)
(***************************************************************************)
\* proc.communicate of a start thread returns or raises
StartCommandEnds ==
  /\ ThreadRuns
  /\ \E t \in Alive :
       /\ t.cmd = "session-start" /\ t.res.kind = "none"
       /\ Copies(threads', {t} \cap DOMAIN threads') < Copies(threads, {t})

NextAttempts ==
  \/ SelectConfig \/ StartVpn \/ TimerFires
  \/ CredentialDialogOk \/ CredentialDialogCancel \/ CloseError \/ AnswerQuestion
  \/ SessionDrops
  \/ ThreadRuns \/ StartThreadRaises \/ ShowError \/ EnableStart
  \/ UpdateCombo \/ ProcessStatus \/ ProcessSessionStatus \/ StartDone

SpecAttempts ==
  /\ Init /\ [][NextAttempts]_vars
  /\ WF_vars(StartCommandEnds) /\ WF_vars(StartThreadRaises)
  /\ SF_vars(StartDone) /\ WF_vars(CloseError) /\ WF_vars(AnswerQuestion)
  /\ WF_vars(CredentialDialogOk \/ CredentialDialogCancel)

(***************************************************************************)
(* Properties.                                                             *)
(***************************************************************************)
\* C1: a status poll (the session listing or the statistics query) that is
\* applied while the connecting guard is set does not set the status to
\* Disconnected and does not re-enable Connect.
C1_PollLeavesConnecting ==
  [][\A t \in Alive :
       (is_connecting /\ (ProcessStatusOn(t) \/ ProcessSessionStatusOn(t)))
       => /\ status' = "Disconnected" => status = "Disconnected"
          /\ start_button' => start_button]_vars

\* a failed or empty poll has just been applied under the guard, and the
\* program still shows Connecting with Connect disabled
C1_Witness ==
  /\ last.op \in PollCallbacks /\ last.guard
  /\ last.kind = "rcN"
  /\ is_connecting /\ status = "Connecting..." /\ ~start_button

\* C2: a poll that was issued before a start or stop completed and is applied
\* after it does not replace the state the completion set: after a successful
\* start the program stays connected with Connect disabled, after a
\* successful stop it stays Disconnected with no tracked session.
C2_StalePollKeepsResult ==
  [][\A t \in Alive :
       (ProcessStatusOn(t) \/ ProcessSessionStatusOn(t))
       => /\ (t.stale = "start" /\ status = "Connected Successfully")
             => /\ status' \in {"Connected Successfully", "Connected"}
                /\ ~start_button'
          /\ (t.stale = "stop" /\ status = "Disconnected"
                /\ current_session = None)
             => /\ status' = "Disconnected"
                /\ current_session' = None]_vars

\* C3: Connect pressed while the selected display name is not a key of the
\* config mapping (nothing selected, or the placeholder entry) reports a
\* validation error, starts no command and does not set the connecting guard.
C3_StartNeedsListedConfig ==
  [][(StartVpn /\ ActiveText \notin DOMAIN config_paths)
       => /\ dialogs' = <<ErrorDialog>>
          /\ threads' = threads
          /\ is_connecting' = is_connecting
          /\ status' = status]_vars

\* Connect was pressed with the placeholder selected and the error is shown
C3_Witness ==
  /\ last.op = "start_vpn"
  /\ ActiveText = NoConfigs
  /\ dialogs = <<ErrorDialog>>
  /\ ~is_connecting

\* the positions <<line, token>> of the tokens that contain the session prefix
NsPositions(lines) ==
  UNION {{<<i, j>> : j \in {k \in 1..Len(lines[i]) : HasNs(lines[i][k])}} :
           i \in 1..Len(lines)}

\* the first such token in reading order
FirstListed(lines) ==
  LET p == CHOOSE q \in NsPositions(lines) :
             \A r \in NsPositions(lines) :
               q[1] < r[1] \/ (q[1] = r[1] /\ q[2] <= r[2])
  IN lines[p[1]][p[2]]

StatsPoll(ref) == Thread("session-stats", ref, "process_session_status")

DataLines(lines) ==
  {i \in 3..Len(lines) : Len(lines[i]) > 0 /\ lines[i][1] # Dashes}

ListedConfigs(lines) ==
  [n \in {Basename(lines[i][1]) : i \in DataLines(lines)} |->
     LET I == {i \in DataLines(lines) : Basename(lines[i][1]) = n}
         m == CHOOSE i \in I : \A j \in I : j <= i
     IN lines[m][1]]

\* C4: when a refresh of the config list fails (non-zero exit, timeout or
\* failure to launch) the config mapping is empty afterwards, and after a
\* successful listing the mapping holds exactly the entries of that listing.
C4_RefreshDecidesMapping ==
  [][/\ \A t \in Alive :
          UpdateComboOn(t)
          => config_paths' = IF t.res.kind = "rc0" THEN ListedConfigs(t.res.out)
                             ELSE EmptyMap
     /\ (last'.op = "show_error" /\ last'.cmd = "configs-list")
          => config_paths' = EmptyMap]_vars

\* a disconnect call is in flight
Disconnecting == \E t \in Alive : t.cb = "disconnect_done"

\* one more sessions-list poll is in flight after the step than before it
PollIssued ==
  LET p == Thread("sessions-list", "", "process_status")
  IN CopiesIn(p, threads') = CopiesIn(p, threads) + 1

\* C6: while a disconnect call is in flight the status is Disconnecting; when
\* it succeeds the tracked session is cleared and the status is Disconnected;
\* when it fails (non-zero exit, timeout or failure to launch) the tracked
\* session and the status are left as they are and a status poll is issued.
C6_StopOutcome ==
  [][/\ Disconnecting' => status' = "Disconnecting..."
     /\ \A t \in Alive :
          DisconnectDoneOn(t)
          => IF t.res.kind = "rc0"
             THEN current_session' = None /\ status' = "Disconnected"
             ELSE /\ UNCHANGED <<current_session, status>>
                  /\ PollIssued
     /\ (last'.op = "show_error" /\ last'.cmd = "session-manage")
          => /\ UNCHANGED <<current_session, status>>
             /\ PollIssued]_vars

\* C7: Disconnect pressed with a tracked session disconnects that session
\* without listing; with none tracked it lists the sessions, and the listing's
\* completion disconnects the first token that contains the session prefix,
\* and issues no disconnect when the listing failed or names no session.
C7_StopTarget ==
  [][/\ StopVpn
          => threads' = threads (+) One(
               IF NoTracked(current_session)
               THEN Thread("sessions-list", "", "find_and_disconnect")
               ELSE Thread("session-manage", current_session, "disconnect_done"))
     /\ \A t \in Alive :
          FindAndDisconnectOn(t)
          => threads' =
               IF t.res.kind = "rc0" /\ NsPositions(t.res.out) # {}
               THEN (threads (-) One(t))
                    (+) One(Thread("session-manage", FirstListed(t.res.out),
                                   "disconnect_done"))
               ELSE threads (-) One(t)]_vars

\* C8: a failed start whose error output carries the authentication marker
\* asks for new credentials and does not set the status to Disconnected; a
\* failed start without the marker sets the status to Disconnected and
\* reports exactly one error.
C8_StartFailure ==
  [][\A t \in Alive :
       (StartDoneOn(t) /\ t.res.kind = "rcN")
       => IF IsAuthError(t.res.err)
          THEN /\ dialogs' = Append(dialogs, Dialog("question", "", t.arg, FALSE))
               /\ status' # "Disconnected"
          ELSE /\ dialogs' = Append(dialogs, ErrorDialog)
               /\ status' = "Disconnected"]_vars

\* the lines of an output that hold the "Session path:" label
LabelLines(lines) ==
  {i \in 1..Len(lines) : \E j \in 1..Len(lines[i]) : lines[i][j] = LabelSession}

\* the text that follows the label on the first of these lines
LabelledRef(lines) ==
  LET i == CHOOSE k \in LabelLines(lines) : \A m \in LabelLines(lines) : k <= m
      j == CHOOSE k \in 1..Len(lines[i]) : lines[i][k] = LabelSession
  IN JoinTokens(SubSeq(lines[i], j + 1, Len(lines[i])))

\* the session refs that occur in an output, by position
RefPositions(lines) ==
  {p \in NsPositions(lines) : RegexMatch(lines[p[1]][p[2]]) # None}

FirstRef(lines) ==
  LET p == CHOOSE q \in RefPositions(lines) :
             \A r \in RefPositions(lines) :
               q[1] < r[1] \/ (q[1] = r[1] /\ q[2] <= r[2])
  IN RegexMatch(lines[p[1]][p[2]])

\* C9: a successful start tracks the value of the "Session path:" line of the
\* output, or, when the output has no such line, the first session ref that
\* occurs in it; the status is Connected, Connect is disabled, Disconnect is
\* enabled and the connecting guard is cleared.
C9_StartSuccess ==
  [][\A t \in Alive :
       (StartDoneOn(t) /\ t.res.kind = "rc0")
       => /\ status' = "Connected Successfully"
          /\ ~is_connecting' /\ ~start_button' /\ stop_button'
          /\ LabelLines(t.res.out) # {}
             => current_session' = LabelledRef(t.res.out)
          /\ (LabelLines(t.res.out) = {} /\ RefPositions(t.res.out) # {})
             => current_session' = FirstRef(t.res.out)]_vars

\* a start has just succeeded and its session is the tracked one
C9_Witness ==
  /\ last.op = "start_done" /\ last.kind = "rc0"
  /\ status = "Connected Successfully"
  /\ current_session \in SessionRefs
  /\ Live(current_session)

\* C10: after save_credentials(name, username, password) the lookup of name
\* returns that username and password, whether the keyring is in use and
\* works, is in use and fails, or is not in use; and switching the keyring
\* off leaves credentials.json as it was.
C10_CredentialRoundTrip ==
  [][/\ \A name \in CredNames, u \in CredUsers, p \in CredPasswords,
           kr_ok \in BOOLEAN, file_ok \in BOOLEAN :
          SaveCredentials(name, u, p, TRUE, kr_ok, file_ok)
          => GetCredentialsFor(name)' = <<u, p>>
     /\ ToggleKeyringSupport
          => /\ credentials_file' = credentials_file
             /\ \A name \in CredNames :
                  GetCredentialsFor(name)' = GetCredentialsFor(name)]_vars

\* the keyring has just been switched off; earlier saves wrote the keyring
\* and, when its write failed, credentials.json, which now holds another
\* payload than the keyring; the lookup returns the entry saved last
C10_Witness ==
  /\ last.op = "toggle_keyring_support"
  /\ KEYRING_AVAILABLE /\ ~use_keyring
  /\ credentials_file.present
  /\ keyring_store.present
  /\ JsonLoads(credentials_file) # JsonLoads(keyring_store)
  /\ GetCredentialsFor("a.ovpn") = <<"bob", "pw">>

\* C11: save_credentials puts the entry into the in-memory mapping whatever
\* the backends do, and when the keyring is in use and its write fails, the
\* file write stores the whole in-memory mapping: credentials.json then holds
\* exactly the mapping in memory, and the keyring keeps what it held.
C11_FailedKeyringWriteFallsBack ==
  [][\A name \in CredNames, u \in CredUsers, p \in CredPasswords,
        kr_ok \in BOOLEAN, file_ok \in BOOLEAN :
       SaveCredentials(name, u, p, TRUE, kr_ok, file_ok)
       => /\ stored_credentials' = (name :> Cred(u, p)) @@ stored_credentials
          /\ (KEYRING_AVAILABLE /\ use_keyring /\ ~kr_ok /\ file_ok)
             => /\ credentials_file'.present
                /\ JsonLoads(credentials_file') = stored_credentials'
                /\ keyring_store' = keyring_store]_vars

\* a save has just run with the keyring in use; the keyring does not hold the
\* mapping in memory, so its write failed, and credentials.json holds both
\* entries of the mapping
C11_Witness ==
  /\ last.op = "save_credentials"
  /\ KEYRING_AVAILABLE /\ use_keyring
  /\ keyring_store # JsonDumps(stored_credentials)
  /\ credentials_file = JsonDumps(stored_credentials)
  /\ DOMAIN stored_credentials = CredNames

\* C12: load_credentials returns the keyring's mapping when the keyring is
\* available, in use, readable and holds one; otherwise the mapping of
\* credentials.json when the file exists and is readable; otherwise the empty
\* mapping.
C12_LoadOrder ==
  [][\A kr_read \in ReadOutcomes, file_read \in ReadOutcomes :
       LoadCredentialsOn(kr_read, file_read)
       => LET secure == KEYRING_AVAILABLE /\ use_keyring' /\ kr_read = "ok"
                        /\ keyring_store.present
              file == credentials_file.present /\ file_read = "ok"
          IN /\ secure => stored_credentials' = keyring_store.json
             /\ (~secure /\ file) => stored_credentials' = credentials_file.json
             /\ (~secure /\ ~file) => stored_credentials' = EmptyMap]_vars

\* a restart has just loaded the mapping of credentials.json although the
\* keyring holds another one: the keyring could not be read
C12_Witness ==
  /\ last.op = "load_credentials"
  /\ KEYRING_AVAILABLE /\ use_keyring
  /\ keyring_store.present /\ credentials_file.present
  /\ keyring_store.json # credentials_file.json
  /\ stored_credentials = credentials_file.json

\* the newest entry of a history
Newest(h) == h[Len(h)]

\* C16: the sample update_chart_data appends for a direction is current -
\* previous when previous > 0 and current > previous, and 0 otherwise; no
\* history ever holds a negative sample; and update(80, 60) after
\* update(100, 50) appends in-rate 0 and out-rate 10.
C16_RatesNeverNegative ==
  [][\A s \in Samples :
       UpdateChartDataOn(s)
       => /\ Newest(bytes_in_history') =
               IF last_bytes_in > 0 /\ s[1] > last_bytes_in
               THEN s[1] - last_bytes_in ELSE 0
          /\ Newest(bytes_out_history') =
               IF last_bytes_out > 0 /\ s[2] > last_bytes_out
               THEN s[2] - last_bytes_out ELSE 0
          /\ \A i \in 1..Len(bytes_in_history') : bytes_in_history'[i] >= 0
          /\ \A i \in 1..Len(bytes_out_history') : bytes_out_history'[i] >= 0
          /\ (last_bytes_in = 100 /\ last_bytes_out = 50 /\ s = <<80, 60>>)
             => /\ Newest(bytes_in_history') = 0
                /\ Newest(bytes_out_history') = 10]_vars

\* three updates were made, the last one (80, 60) after (100, 50): the in
\* counter fell and the newest samples are 0 and 10
C16_Witness ==
  /\ last.op = "update_chart_data" /\ updates = 3
  /\ last_bytes_in = 80 /\ last_bytes_out = 60
  /\ Newest(bytes_in_history) = 0
  /\ Newest(bytes_out_history) = 10

Min(a, b) == IF a <= b THEN a ELSE b

C20_ListingParse ==
  [][\A t \in Alive :
       (UpdateComboOn(t) /\ t.res.kind = "rc0")
       => LET lines == t.res.out
              D == DataLines(lines)
              name(i) == Basename(lines[i][1])
          IN /\ DOMAIN config_paths' = {name(i) : i \in D}
             /\ \A i \in D :
                  (\A j \in D : j > i => name(j) # name(i))
                  => config_paths'[name(i)] = lines[i][1]
             /\ lines = Header \o << <<"/home/u/a.ovpn", "0", "0">> >>
                  => config_paths' = ("a.ovpn" :> "/home/u/a.ovpn")]_vars

\* a listing with two lines for a.ovpn was parsed: the later line's path is
\* the one kept
C20_Witness ==
  /\ last.op = "update_combo" /\ last.kind = "rc0"
  /\ combo_items = <<"b.ovpn", "a.ovpn", "a.ovpn">>
  /\ config_paths = ("a.ovpn" :> PathA) @@ ("b.ovpn" :> PathB)

\* the lines of a report that carry the session-level counter: the key,
\* with or without leading blanks
InLines(lines) ==
  {i \in 1..Len(lines) : lines[i].head \in {"BYTES_IN", "     BYTES_IN"}}
OutLines(lines) ==
  {i \in 1..Len(lines) : lines[i].head \in {"BYTES_OUT", "     BYTES_OUT"}}

\* the trailing fields that are numbers
FieldNumber == ("9438" :> 9438) @@ ("1234" :> 1234) @@ (" 3599" :> 3599)

\* the line has padding dots and a number after the last one
WellFormed(line) == line.dots /\ line.field \in DOMAIN FieldNumber

\* C18: the parse of a session-stats report is total: a counter for which
\* the report has no line with padding dots and a numeric trailing field
\* (key missing, no dots, empty or non-numeric field) is 0, and the poll
\* completion that carries the report still finishes its state update: the
\* session is tracked, the status is Connected, Disconnect is enabled,
\* Connect is disabled and the chart has taken the reading.
C18_ParseIsTotal ==
  [][\A t \in Alive :
       (ProcessSessionStatusOn(t) /\ t.res.kind = "rc0")
       => LET lines == t.res.out IN
          /\ (\A i \in InLines(lines) : ~WellFormed(lines[i]))
               => last_bytes_in' = 0
          /\ (\A i \in OutLines(lines) : ~WellFormed(lines[i]))
               => last_bytes_out' = 0
          /\ current_session' = t.arg
          /\ status' = "Connected"
          /\ stop_button' /\ ~start_button'
          /\ Len(bytes_in_history') = chart_data_points
          /\ Len(bytes_out_history') = chart_data_points
          /\ ~(t \in BagToSet(threads') /\ CopiesIn(t, threads') = CopiesIn(t, threads))]_vars

\* a report whose BYTES_IN line has no dots and whose BYTES_OUT line is whole
\* was applied: bytes_in is 0, bytes_out was read, the update was finished
C18_Witness ==
  /\ last.op = "process_session_status" /\ last.kind = "rc0"
  /\ status = "Connected" /\ current_session = S1
  /\ last_bytes_in = 0 /\ last_bytes_out = 3599

\* C19: bytes_in and bytes_out come only from BYTES_IN and BYTES_OUT lines
\* that do not start with TUN_ after leading blanks, and the value is the
\* integer after the last '.' of the line; a report with the lines
\* "TUN_BYTES_IN....1234" and "BYTES_IN.......9438", in either order, gives
\* bytes_in = 9438.
C19_TunnelLinesExcluded ==
  [][\A t \in Alive :
       (ProcessSessionStatusOn(t) /\ t.res.kind = "rc0")
       => LET lines == t.res.out IN
          /\ last_bytes_in' # 0
               => \E i \in InLines(lines) :
                    /\ WellFormed(lines[i])
                    /\ last_bytes_in' = FieldNumber[lines[i].field]
          /\ last_bytes_out' # 0
               => \E i \in OutLines(lines) :
                    /\ WellFormed(lines[i])
                    /\ last_bytes_out' = FieldNumber[lines[i].field]
          /\ \A i \in InLines(lines) :
               (WellFormed(lines[i])
                /\ \A j \in InLines(lines) : j > i => ~WellFormed(lines[j]))
               => last_bytes_in' = FieldNumber[lines[i].field]
          /\ lines \in {TunFirstText, TunLastText} => last_bytes_in' = 9438]_vars

\* one of the two scenario reports was applied: they are the only reports
\* with a BYTES_IN counter and no BYTES_OUT line
C19_Witness ==
  /\ last.op = "process_session_status" /\ last.kind = "rc0"
  /\ last_bytes_in = 9438 /\ last_bytes_out = 0

\* the step is a run of migrate_all_credentials that reports results
MigrateRan ==
  last'.op = "migrate_all_credentials" /\ migration_report'.kind = "results"

\* C13: a migrate run does not write to or replace a backup file that
\* exists: its content after the run is its content before the run, also
\* when the original auth file was changed after the backup was made.
C13_BackupWrittenOnce ==
  [][last'.op = "migrate_all_credentials"
     => \A path \in AuthPaths :
          FileAt(backup_files, path).exists
          => FileAt(backup_files', path) = FileAt(backup_files, path)]_vars

\* a.ovpn was migrated again after its auth file was changed: the stored
\* credentials are the new ones, the backup still holds the old file
C13_Witness ==
  /\ last.op = "migrate_all_credentials"
  /\ migration_report.kind = "results" /\ migration_report.migrated >= 1
  /\ FileAt(auth_files, AuthA) = File(<<"bob\n", "pw">>)
  /\ "a.ovpn" \in DOMAIN stored_credentials
  /\ stored_credentials["a.ovpn"] = Cred("bob", "pw")
  /\ FileAt(backup_files, AuthA) = File(<<"alice\n", "pw\n">>)

\* C14: a migrate run leaves every original auth file as it was, with its
\* content, whatever happens to each finding.
C14_OriginalsUntouched ==
  [][last'.op = "migrate_all_credentials" => auth_files' = auth_files]_vars

\* a run migrated one finding, backed its file up, and failed on another:
\* both original files are on disk
C14_Witness ==
  /\ last.op = "migrate_all_credentials"
  /\ migration_report.kind = "results"
  /\ migration_report.migrated = 1 /\ Len(migration_report.failed) = 1
  /\ FileAt(backup_files, AuthB).exists /\ ~FileAt(backup_files, AuthA).exists
  /\ FileAt(auth_files, AuthA).exists /\ FileAt(auth_files, AuthB).exists

\* the findings the report gives a failure reason for, and those among them
\* whose credentials were saved before the backup copy failed
FailedAt(report, findings) ==
  {i \in 1..Len(findings) :
     \E k \in 1..Len(report.failed) : report.failed[k][1] = findings[i][1]}
SavedThenFailedAt(report, findings) ==
  {i \in 1..Len(findings) :
     \E k \in 1..Len(report.failed) :
       report.failed[k] = <<findings[i][1], "cannot back up">>}

\* C15: a migrate run processes every finding, whatever happened to the
\* findings before it: each finding either has its credentials saved from
\* its file or has a failure reason in the report; the report gives one
\* reason per failed finding, in the order of the findings, and the number
\* migrated is the number of findings whose credentials were saved.
C15_FindingsIndependent ==
  [][MigrateRan
     => LET findings == plaintext_configs'
            report == migration_report'
            F == FailedAt(report, findings)
            B == SavedThenFailedAt(report, findings)
        IN /\ \A i \in 1..Len(findings) \ F :
                LET file == FileAt(auth_files, findings[i][3]) IN
                /\ file.exists /\ Len(file.lines) >= 2
                /\ findings[i][1] \in DOMAIN stored_credentials'
                /\ stored_credentials'[findings[i][1]] =
                     Cred(Strip(file.lines[1]), Strip(file.lines[2]))
           /\ Len(report.failed) = Cardinality(F)
           /\ \A k, l \in 1..Len(report.failed) :
                k < l => \E i, j \in F :
                           /\ i < j
                           /\ report.failed[k][1] = findings[i][1]
                           /\ report.failed[l][1] = findings[j][1]
           /\ report.migrated = Len(findings) - Cardinality(F) + Cardinality(B)]_vars

\* the first finding failed (its file has one line) and the second one was
\* migrated all the same
C15_Witness ==
  /\ last.op = "migrate_all_credentials"
  /\ Len(plaintext_configs) = 2
  /\ migration_report.kind = "results"
  /\ migration_report.migrated = 1
  /\ migration_report.failed = << <<"a.ovpn", "Invalid auth file format">> >>
  /\ "b.ovpn" \in DOMAIN stored_credentials
  /\ FileAt(backup_files, AuthB).exists

\* C22: while a disconnect call is in flight and the status is
\* Disconnecting, a poll completion (of the session listing or of the
\* statistics query) leaves the status at Disconnecting: it sets neither
\* Disconnected nor Connected.
C22_PollLeavesDisconnecting ==
  [][\A t \in Alive :
       (/\ Disconnecting /\ status = "Disconnecting..."
        /\ (ProcessStatusOn(t) \/ ProcessSessionStatusOn(t)))
       => status' = "Disconnecting..."]_vars

\* C23: at most one repeating poll timer is registered, whatever starts,
\* stops and polls have happened.
C23_SinglePollTimer == poll_timers <= 1

\* the threads of a bag that run the same command for the same callback with
\* the same result as t
SameCall(b, t) ==
  {u \in DOMAIN b : /\ u.cmd = t.cmd /\ u.arg = t.arg
                    /\ u.cb = t.cb /\ u.res = t.res}

\* the step is the last one of the invocation t
Completes(t) ==
  Copies(threads', SameCall(threads', t)) < Copies(threads, SameCall(threads, t))

\* C24: an invocation whose command has ended, with an exit status, a
\* timeout or a failure to launch, is completed by the run of its caller's
\* callback with that outcome, and in no other way.
C24_OutcomeReachesCallback ==
  [][\A t \in Alive :
       (t.res.kind # "none" /\ Completes(t))
       => last'.op = t.cb /\ last'.kind = t.res.kind]_vars

\* C25: the steps of the worker threads (the run of the command and the
\* except branches of the thread) write none of the owner's state: the
\* config mapping, the status and the connecting guard, the tracked session,
\* the credential cache and the rate history.
C25_WorkersLeaveOwnerState ==
  [][(ThreadRuns \/ StartThreadRaises)
     => UNCHANGED <<config_paths, status, is_connecting, current_session,
                    stored_credentials, bytes_in_history, bytes_out_history,
                    last_bytes_in, last_bytes_out>>]_vars

\* the step handles the failure of a start or of a disconnect: the callback
\* receives a non-zero exit, or the error of a timeout or of a failure to
\* launch is shown
FailureHandled ==
  \/ \E t \in Alive : t.res.kind = "rcN" /\ (StartDoneOn(t) \/ DisconnectDoneOn(t))
  \/ /\ last'.op = "show_error"
     /\ last'.cmd \in {"session-start", "session-manage"}

\* C27: the handling of every failed start or disconnect issues a status
\* poll, and a poll completion that is applied without the connecting guard
\* sets Connect and Disconnect as the control plane reported: Disconnect
\* alone for a session that answers, Connect alone for none.
C27_FailureRechecks ==
  [][/\ FailureHandled => PollIssued
     /\ \A t \in Alive :
          /\ (ProcessSessionStatusOn(t) /\ t.res.kind = "rc0")
               => stop_button' /\ ~start_button'
          /\ (ProcessStatusOn(t) /\ ~is_connecting
                /\ ParseSessionList(t.res.out) = <<>>)
               => start_button' /\ ~stop_button']_vars

\* the place of a status in the order Disconnected, Connecting, Connected,
\* Disconnecting
Phase(text) ==
  CASE text = "Connecting..." -> 1
    [] text \in {"Connected", "Connected Successfully"} -> 2
    [] text = "Disconnecting..." -> 3
    [] OTHER -> 0

\* C28: every step leaves the connection state where it is or moves it to
\* the next state of Disconnected -> Connecting -> Connected ->
\* Disconnecting -> Disconnected; no step goes back or skips a state.
C28_StateMovesForward ==
  [][\/ Phase(status') = Phase(status)
     \/ Phase(status') = (Phase(status) + 1) % 4]_vars

\* the paths cleanup_done reads from the listing it was given
ListedPaths(t) ==
  IF t.res.kind = "rc0" /\ NonBlank(t.res.out) THEN ParseSessionList(t.res.out)
  ELSE <<>>

ErrorPaths(report) == {report.errors[i].path : i \in 1..Len(report.errors)}

InErrorPaths(report, path) == path \in ErrorPaths(report)

\* C21: the clean-up attempts every session of the listing, in order,
\* whatever happened to the earlier ones: each listed session either was
\* disconnected by the step or has its error entry, the entries are in
\* listing order, the count is the number of successes, and the result is
\* reported as information exactly when at least one session was cleaned
C21_CleanupAttemptsAll ==
  [][\A t \in Alive :
       (CleanupDoneOn(t) /\ ListedPaths(t) # <<>>) =>
         LET session_paths == ListedPaths(t)
             report == dialogs'[Len(dialogs')] IN
         /\ report.kind \in {"cleanup_info", "cleanup_error"}
         /\ report.kind = "cleanup_info" <=> report.cleaned > 0
         /\ report.cleaned + Len(report.errors) = Len(session_paths)
         /\ [i \in 1..Len(report.errors) |-> report.errors[i].path]
              = SelectSeq(session_paths, LAMBDA p : InErrorPaths(report, p))
         /\ \A i \in 1..Len(session_paths) :
              session_paths[i] \notin ErrorPaths(report)
                => /\ session_paths[i] \in SeqToSet(sessions)
                   /\ session_paths[i] \notin SeqToSet(sessions')]_vars

\* the first session of the listing failed and the second was still cleaned
C21_Witness ==
  /\ dialogs # <<>>
  /\ Top.kind = "cleanup_info"
  /\ Top.cleaned = 1
  /\ Len(Top.errors) = 1 /\ Top.errors[1].path = S1
  /\ sessions = <<>>

\* C26: no external command runs on the owner thread: a step that runs a
\* callback or an entry point of the window leaves the control plane as it was
C26_CommandsRunOnWorkers ==
  [][last'.op # "" => sessions' = sessions]_vars

\* C29: the write of the credential file is crash-safe: whenever the
\* process is cut short, the file on disk is a whole document that only its
\* owner can read
C29_FileWholeAndOwnerOnly ==
  credentials_file.present
    => ~IsTorn(credentials_file) /\ ModeOf(credentials_file) = "0600"

\* what the user can type into the credential dialog
Secrets == (DialogUsers \cup DialogPasswords) \ {""}

\* C30: the user name and the secret reach the session-start command on its
\* standard input, as two lines, and nowhere else: no argument list of a
\* command that is spawned and no command line that debug mode prints holds
\* either of them
C30_CredentialsOnlyOnStdin ==
  \A t \in Alive :
    /\ \A i \in 1..Len(Argv(t)) : Argv(t)[i] \notin Secrets
    /\ \A i \in 1..Len(DebugPrinted(t)) : DebugPrinted(t)[i] \notin Secrets
    /\ IF t.cmd = "session-start"
       THEN /\ Len(t.input) = 2
            /\ t.input[1] \in DialogUsers \ {""}
            /\ t.input[2] \in DialogPasswords \ {""}
       ELSE t.input = <<>>

\* a start thread runs with alice's credentials on its standard input
C30_Witness ==
  \E t \in Alive :
    /\ t.cmd = "session-start" /\ t.input = <<"alice", "pw">>
    /\ t.res.kind = "rc0"

\* C39: a migrate run counts every finding exactly once, as migrated or as
\* failed: the number migrated plus the number of failure entries is the
\* number of findings, and no finding that was counted as migrated has a
\* failure entry.
C39_FindingsCountedOnce ==
  [][MigrateRan
     => LET findings == plaintext_configs'
            report == migration_report'
        IN /\ report.migrated + Len(report.failed) = Len(findings)
           /\ SavedThenFailedAt(report, findings) = {}]_vars

\* C32: switching the keyring on or off changes the preference only: the
\* mapping in memory, the keyring's payload and credentials.json stay as
\* they were, and without the keyring module the preference stays off.
C32_ToggleChangesPreferenceOnly ==
  [][last'.op = "toggle_keyring_support"
     => /\ UNCHANGED <<stored_credentials, keyring_store, credentials_file>>
        /\ ~KEYRING_AVAILABLE => ~use_keyring']_vars

\* the keyring has just been switched on while the credentials that were
\* saved with it switched off are in credentials.json alone
C32_Witness ==
  /\ last.op = "toggle_keyring_support"
  /\ KEYRING_AVAILABLE /\ use_keyring
  /\ stored_credentials # EmptyMap
  /\ credentials_file = JsonDumps(stored_credentials)
  /\ ~keyring_store.present

\* the mapping in memory is on disk or in the keyring as a whole: the save
\* that wrote it last did not fail
SavedWhole ==
  \/ keyring_store = JsonDumps(stored_credentials)
  \/ credentials_file = JsonDumps(stored_credentials)

\* C38: saved credentials survive a restart: when the mapping in memory has
\* been written by save_credentials and both stores can be read, the
\* load_credentials of the next start returns that mapping.
C38_RestartKeepsCredentials ==
  [][(LoadCredentialsOn("ok", "ok") /\ SavedWhole)
     => stored_credentials' = stored_credentials]_vars

\* C31: the help for a locked keyring is queued at most once in a process:
\* however many keyring calls of load_credentials and save_credentials have
\* failed with a locked or uninitialized keyring, the help was queued once,
\* at the first of them, and the attribute that suppresses it is set from
\* then on.
C31_NoticeQueuedOnce ==
  /\ keyring_fix_queued = (IF locked_failures > 0 THEN 1 ELSE 0)
  /\ keyring_init_warning_shown <=> locked_failures > 0

\* a save has just fallen back to credentials.json after the second locked
\* failure of this process
C31_Witness ==
  /\ last.op = "save_credentials"
  /\ locked_failures = 2
  /\ keyring_fix_queued = 1
  /\ credentials_file = JsonDumps(stored_credentials)

\* C33: whenever the status is Disconnected no session is tracked:
\* current_session is empty.
C33_DisconnectedTracksNoSession ==
  status = "Disconnected" => current_session = None

\* the session paths that a report of session-start holds
OutputRefs(out) ==
  {r \in SessionRefs :
     \E i \in 1..Len(out) : \E j \in 1..Len(out[i]) :
       out[i][j] = r \/ RegexMatch(out[i][j]) = r}

\* C34: after a successful start the tracked session is one that the
\* output of that start names, or none: it is never the session of an
\* earlier connection.
C34_StartTracksItsOwnSession ==
  [][\A t \in Alive :
       (StartDoneOn(t) /\ t.res.kind = "rc0")
       => current_session' \in OutputRefs(t.res.out) \cup {None}]_vars

\* C35: Connect and Disconnect are never both sensitive.
C35_ButtonsExclusive == ~(start_button /\ stop_button)

C37_RetrySavesUnderRejectedConfig ==
  [][(CredentialDialogOk /\ Top.retry)
     => Top.name = Basename(Top.path)]_vars
====
